---- MODULE Spec2Model ----
(***************************************************************************)
(* Browser orchestration of the collector runner (src/collectors/runner.py) *)
(* and the profile configuration (src/app/profiles.py).                    *)
(*                                                                         *)
(* The program is single-threaded: run_all drives run_collector,           *)
(* _launch_chrome_with_cdp and _close_chrome one after another.  pc is the *)
(* position of that single thread.  The environment (Chrome processes, the *)
(* debug port) reacts inside the steps that observe it: a spawned Chrome   *)
(* may open the port between two readiness polls, a signalled Chrome may   *)
(* exit between two grace polls, and the port of a dead process may be     *)
(* released between two port polls.                                        *)
(***************************************************************************)
EXTENDS Integers, Sequences, FiniteSets, TLC

\* ---------------------------------------------------------------- bounds
\* longest platform list handed to run_all
MaxPlatforms == 3
\* most conversations one scrape yields after the date filter
MaxConvs == 1
\* most rows of the cookies table that match the domain
MaxRows == 2
\* most rows of a cookies table that holds several hosts
MaxTable == 2
\* most records handed to _filter_by_date
MaxRecords == 3
\* most list pages of one run that hold a record dated before the cutoff
MaxOldPages == 1
\* most records of an IndexedDB object store
MaxIdbRecords == 2
\* most selectors and most passes of _wait_for_content
MaxSelectors == 2
MaxAttempts == 2

\* ------------------------------------------------------ program constants
\* for _ in range(15) in _launch_chrome_with_cdp
LAUNCH_POLLS == 15
\* for _ in range(10) after SIGTERM in _close_chrome
GRACE_POLLS == 10
\* for _ in range(10) waiting for the port in _close_chrome
PORT_POLLS == 10
\* settings.cdp_port
CDP_PORT == 9222
\* _TOKEN_EXPIRY_BUFFER_S of firebase_idb.py and of granola_api.py
FIREBASE_TOKEN_EXPIRY_BUFFER_S == 300
GRANOLA_TOKEN_EXPIRY_BUFFER_S == 300
\* _MAX_PAGES and the page size of chatgpt_api.py, fyxer_api.py, granola_api.py
CHATGPT_MAX_PAGES == 50
CHATGPT_PAGE_SIZE == 28
FYXER_MAX_PAGES == 50
FYXER_PAGE_SIZE == 50
GRANOLA_MAX_PAGES == 100
GRANOLA_PAGE_SIZE == 50
\* the AES block, the length of _IV in chrome_cookies.py
AES_BLOCK == 16
\* the domain hash of chrome_cookies.py line 74 and the version that has it
DOMAIN_HASH_LEN == 32
HASH_DB_VERSION == 24

\* Python's None, for names
None == "None"

\* ------------------------------------------------------------- profiles
CDPProfile(n, ps) == [name |-> n, platforms |-> ps]

\* "profile is None"
NoProfile == [name |-> None, platforms |-> <<>>]

DEFAULT_PROFILES ==
    << CDPProfile("personal", <<"claude", "chatgpt">>),
       CDPProfile("company", <<"gemini", "fyxer", "granola">>) >>

COLLECTORS == <<"claude", "chatgpt", "gemini", "granola", "fyxer">>

Range(s) == {s[i] : i \in DOMAIN s}

RECURSIVE ProfileScan(_, _, _)
ProfileScan(platform, profiles, i) ==
    IF i > Len(profiles) THEN NoProfile
    ELSE IF platform \in Range(profiles[i].platforms) THEN profiles[i]
    ELSE ProfileScan(platform, profiles, i + 1)

get_profile_for_platform(platform, profiles) == ProfileScan(platform, profiles, 1)

\* a path, as the tuple of its components below PROJECT_ROOT
NoDir == <<>>
get_cdp_data_dir(profile) == <<"data", "chrome_cdp_profiles", profile.name>>
\* settings.db_path.parent / "chrome_cdp_profile"
LegacyCdpDir == <<"data", "chrome_cdp_profile">>

ProfileKey(profile) == IF profile # NoProfile THEN profile.name ELSE None

\* GroupStep that puts the platform at the front of its group's list
GroupStepPrepends(acc, platform, profiles) ==
    LET profile == get_profile_for_platform(platform, profiles)
        key == ProfileKey(profile)
        isNew == key \notin DOMAIN acc.groups
        seen1 == IF isNew THEN Append(acc.seen_keys, key) ELSE acc.seen_keys
        groups1 == IF isNew
                   THEN [k \in DOMAIN acc.groups \cup {key} |->
                           IF k = key THEN [profile |-> profile, platforms |-> <<>>]
                           ELSE acc.groups[k]]
                   ELSE acc.groups
    IN  [seen_keys |-> seen1,
         groups |-> [groups1 EXCEPT ![key].platforms = <<platform>> \o @]]

\* one iteration of the loop of group_platforms_by_profile: acc is the pair
\* of locals [seen_keys, groups], groups a dict from key to (profile, list)
GroupStep(acc, platform, profiles) ==
    LET profile == get_profile_for_platform(platform, profiles)
        key == ProfileKey(profile)
        isNew == key \notin DOMAIN acc.groups
        seen1 == IF isNew THEN Append(acc.seen_keys, key) ELSE acc.seen_keys
        groups1 == IF isNew
                   THEN [k \in DOMAIN acc.groups \cup {key} |->
                           IF k = key THEN [profile |-> profile, platforms |-> <<>>]
                           ELSE acc.groups[k]]
                   ELSE acc.groups
    IN  [seen_keys |-> seen1,
         groups |-> [groups1 EXCEPT ![key].platforms = Append(@, platform)]]

RECURSIVE GroupLoop(_, _, _, _)
GroupLoop(platforms, profiles, i, acc) ==
    IF i > Len(platforms) THEN acc
    ELSE GroupLoop(platforms, profiles, i + 1, GroupStep(acc, platforms[i], profiles))

\* grouping into runs of consecutive platforms of one profile
RECURSIVE RunsLoop(_, _, _, _)
RunsLoop(ps, profiles, i, acc) ==
    IF i > Len(ps) THEN acc
    ELSE LET profile == get_profile_for_platform(ps[i], profiles)
             n == Len(acc)
         IN  IF n > 0 /\ acc[n].profile = profile
             THEN RunsLoop(ps, profiles, i + 1,
                           [acc EXCEPT ![n].platforms = Append(@, ps[i])])
             ELSE RunsLoop(ps, profiles, i + 1,
                           Append(acc, [profile |-> profile, platforms |-> <<ps[i]>>]))

group_platforms_by_runs(ps, profiles) == RunsLoop(ps, profiles, 1, <<>>)

group_platforms_by_profile(platforms, profiles) ==
    LET acc == GroupLoop(platforms, profiles, 1,
                         [seen_keys |-> <<>>, groups |-> [k \in {} |-> NoProfile]])
    IN  [i \in 1..Len(acc.seen_keys) |-> acc.groups[acc.seen_keys[i]]]

\* ------------------------------------------------------------------ state
VARIABLES
    platforms,          \* run_all's argument
    profile_override,   \* run_all's argument
    pc,                 \* position of the single thread
    groups,             \* run_all: groups
    gi,                 \* run_all: index of the current group
    pi,                 \* run_all: index of the current platform in its group
    last_profile_name,  \* run_all: last_profile_name
    results,            \* run_all: results
    cdp_data_dir,       \* run_collector: the resolved user-data directory
    convs,              \* run_collector: number of conversations returned
    procs,              \* the running "Google Chrome" processes
    port,               \* pid of the process the debug port answers for, 0 when free
    nextPid,            \* pid the next spawned process gets
    fs,                 \* the state of each CDP user-data directory
    launch,             \* _launch_chrome_with_cdp: its locals and what it did
    close,              \* _close_chrome: its locals and what it did
    closeLog,           \* the calls of _close_chrome made by run_all
    visit,              \* the page run_collector opened for the current platform
    iter,               \* the iteration of run_all's inner loop that just finished
    nIters,             \* number of finished iterations of that loop
    failedKeys,         \* profiles for which a launch failed in this run
    collector,          \* the API adapter whose collect function runs
    now_ms,             \* time.time(), in milliseconds
    expires_ms,         \* when the stored access token expires
    auth,               \* the token the adapter holds and how it got it
    page,               \* the pagination loop: its locals and what it did
    returned,           \* what the collect function returned or raised
    stores,             \* the App Check stores on disk
    appCheck,           \* get_app_check_token: what it did and returned
    cookieDb,           \* the cookies table, its schema version, the key
    cookieOut,          \* get_cookies_for_domain(s): what it returned or raised
    dateFilter,         \* _filter_by_date: its arguments and date.today()
    filtered,           \* _filter_by_date: the list it returned
    idbDir,             \* the IndexedDB directory handed to a _read_ function
    idbRead,            \* _read_firebase_auth / _read_app_check_token: what it did
    waitIn,             \* _wait_for_content: its arguments and what the page answers
    wait,               \* _wait_for_content: its locals and what it did
    session             \* run_collector 293-343: the page session of one platform

vars == <<platforms, profile_override, pc, groups, gi, pi, last_profile_name,
          results, cdp_data_dir, convs, procs, port, nextPid, fs, launch, close,
          closeLog, visit, iter, nIters, failedKeys, collector, now_ms,
          expires_ms, auth, page, returned, stores, appCheck,
          cookieDb, cookieOut, dateFilter, filtered, idbDir, idbRead, waitIn, wait,
          session>>

inputVars == <<platforms, profile_override>>
loopVars == <<groups, gi, pi, last_profile_name>>
envVars == <<procs, port, nextPid, fs>>
histVars == <<visit, iter, nIters, failedKeys>>
\* the state of the API adapters (src/collectors/*_api.py, firebase_idb.py)
apiVars == <<collector, now_ms, expires_ms, auth, page, returned>>
\* the state of get_app_check_token
appCheckVars == <<stores, appCheck>>
\* the state of get_cookies_for_domain
cookieVars == <<cookieDb, cookieOut>>
\* the state of the helpers of the runner and of the collectors
helperVars == <<dateFilter, filtered, idbDir, idbRead, waitIn, wait, session>>
adapterVars == <<apiVars, appCheckVars, cookieVars, helperVars>>
\* the state of the runner, the position of the thread left out
runnerVars == <<inputVars, loopVars, results, cdp_data_dir, convs, envVars,
                launch, close, closeLog, histVars>>

\* platform names a caller passes; "notion" has no collector and no profile
InputPlatforms == {"claude", "chatgpt", "gemini", "notion"}

RECURSIVE SeqsUpTo(_, _)
SeqsUpTo(S, n) ==
    IF n = 0 THEN {<<>>}
    ELSE LET shorter == SeqsUpTo(S, n - 1)
         IN  shorter \cup {Append(s, x) : s \in {t \in shorter : Len(t) = n - 1}, x \in S}

Proc(pid, dir, cdp, own) == [pid |-> pid, dir |-> dir, cdp |-> cdp, own |-> own]

\* the user's everyday Chrome, started without a debug port
UserChrome == Proc(1, <<"Library", "Google", "Chrome">>, FALSE, FALSE)
\* a Chrome an earlier run_all left running on the debug port: run_all never
\* terminates the browser it launched for its last group
LeftChrome(name) == Proc(1, <<"data", "chrome_cdp_profiles", name>>, TRUE, FALSE)

Alive(pid) == \E p \in procs : p.pid = pid
ProcOf(pid) == CHOOSE p \in procs : p.pid = pid

\* result: none, polling, returned (the handle), timeout or notfound (raised)
\* seeded: _prepare_cdp_profile ran before this launch
LaunchIdle == [proc |-> 0, polls |-> 0, slept |-> 0, kills |-> 0, result |-> "none",
               seeded |-> FALSE]
\* no page opened, no iteration finished
NoVisit == [platform |-> None, browser |-> NoDir, wanted |-> NoDir]
NoIter == [platform |-> None, raised |-> FALSE, count |-> 0, launch |-> "none"]
\* state: idle, running, returned (normally) or raised (an exception left it);
\* found: the first pgrep found Chrome; term, kill: the pids sent SIGTERM,
\* SIGKILL; exited: a grace poll found Chrome gone; caught: the except clause ran
CloseIdle == [cdp_port |-> <<>>, ret |-> "none", state |-> "idle", found |-> FALSE,
              polls |-> 0, portPolls |-> 0, term |-> {}, kill |-> {},
              exited |-> FALSE, caught |-> FALSE]
CloseCall(cdp_port, ret) ==
    [CloseIdle EXCEPT !.cdp_port = cdp_port, !.ret = ret, !.state = "running"]

\* token: none, stored (the access token read from disk) or fresh (the id
\* token the refresh endpoint returned); refreshCalls: calls of that endpoint
AuthIdle == [token |-> "none", refreshCalls |-> 0]
\* requests: list requests issued; items, more: what the last page held, -1
\* for a request that failed; warned: the page limit warning was logged;
\* fetched: the records of all pages so far; kept: the length of the list
\* conversations; oldPages: pages that held a record dated before the cutoff
PageIdle == [requests |-> 0, items |-> 0, more |-> FALSE, warned |-> FALSE,
             fetched |-> 0, kept |-> 0, oldPages |-> 0]
\* kind: none, empty ([]), list (the conversations gathered) or raised;
\* at: the step that ended the call; error: the exception class; n: the
\* length of the list returned
RetIdle == [kind |-> "none", at |-> "none", error |-> None, n |-> 0]
\* result: none, token, None or raised; from: the store the returned token
\* was read from; visits: runs of the browser helper
AppCheckIdle == [result |-> "none", from |-> None, visits |-> 0]
\* get_app_check_token is not called
AppCheckAtRest ==
    /\ stores = [s \in {"chrome", "cdp", "browser"} |-> [dir |-> FALSE, token |-> FALSE, expire |-> 0]]
    /\ appCheck = AppCheckIdle
\* no API adapter runs
ApiIdle ==
    /\ collector = None
    /\ expires_ms = 0
    /\ auth = AuthIdle
    /\ page = PageIdle
    /\ returned = RetIdle
\* get_cookies_for_domain is not called
\* tmp: the private temp copy is none (never made), exists or removed
CookieOutIdle == [raised |-> FALSE, at |-> "none", cookies |-> <<>>, values |-> <<>>,
                  tmp |-> "none"]
CookiesAtRest ==
    /\ cookieDb = [rows |-> <<>>, key |-> 0, db_version |-> 0,
                   domain |-> <<>>, domains |-> <<>>]
    /\ cookieOut = CookieOutIdle
\* _filter_by_date is not called
NoFilter == [conversations |-> <<>>, days |-> 0, today |-> 0]
\* no IndexedDB directory is read
NoIdbDir == [fn |-> None, exists |-> FALSE, db |-> FALSE, store |-> FALSE,
             records |-> <<>>]
\* opened, closes: calls of WrappedIndexDB(...) and of idb.close(); pending:
\* what the try block returned or raised; result: how the call ended
IdbIdle == [opened |-> 0, closes |-> 0, pending |-> "none", result |-> "none"]
\* _wait_for_content is not called
NoWait == [selectors |-> <<>>, max_attempts |-> 0, answers |-> <<>>]
\* attempt: the loop variable; i: the selector queried next; queries, waits:
\* calls of locator(...).count() and of wait_for_timeout; result: "none"
\* until the function returns, then the selector or None
WaitIdle == [attempt |-> 0, i |-> 1, queries |-> 0, waits |-> 0, result |-> "none"]
\* the helpers other than _filter_by_date are not called
\* run_collector before line 293.  page: line 294 and 302; failedAt: the call
\* of the try block that raised; logged_in: check_login's answer; raw: the
\* length of raw_list; kept: what _filter_by_date returned; conversations:
\* the length of the list of line 259; captures: the calls of
\* _save_debug_info; closes: the calls of page.close() that returned;
\* handled: the except clause of 334 was entered; ret: where the running
\* _save_debug_info returns to; out: the length of the list returned
SessionIdle ==
    [page |-> FALSE, failedAt |-> "none", logged_in |-> "unknown", raw |-> -1,
     kept |-> -1, conversations |-> 0, captures |-> <<>>, closes |-> 0,
     handled |-> FALSE, ret |-> "none", out |-> -1]
OtherHelpersAtRest ==
    /\ idbDir = NoIdbDir
    /\ idbRead = IdbIdle
    /\ waitIn = NoWait
    /\ wait = WaitIdle
    /\ session = SessionIdle
HelpersAtRest ==
    /\ dateFilter = NoFilter
    /\ filtered = <<>>
    /\ OtherHelpersAtRest
AdaptersIdle ==
    /\ HelpersAtRest
    /\ ApiIdle
    /\ now_ms = 0
    /\ AppCheckAtRest
    /\ CookiesAtRest

\* the user-data directories run_collector may hand to Chrome
CdpDirs == {get_cdp_data_dir(DEFAULT_PROFILES[i]) : i \in DOMAIN DEFAULT_PROFILES}
               \cup {LegacyCdpDir}

\* a directory is "absent" (no Default subdirectory), "seeded" (Default holds
\* what _prepare_cdp_profile copied) or "own" (Chrome ran on it and keeps its
\* own session there); before a run: a fresh installation, or one used before
FsInit == fs \in {[d \in CdpDirs |-> s] : s \in {"absent", "own"}}

EnvInit ==
    \/ procs = {} /\ port = 0
    \/ procs = {UserChrome} /\ port = 0
    \/ \E n \in {"personal", "company"} :
         /\ procs = {LeftChrome(n)}
         /\ port = 1
         /\ fs[LeftChrome(n).dir] = "own"

Init ==
    /\ platforms \in SeqsUpTo(InputPlatforms, MaxPlatforms)
    /\ profile_override \in {None, "personal", "nonexistent"}
    /\ pc = "start"
    /\ groups = <<>>
    /\ gi = 1
    /\ pi = 1
    /\ last_profile_name = None
    /\ results = [p \in {} |-> 0]
    /\ cdp_data_dir = NoDir
    /\ convs = 0
    /\ FsInit
    /\ EnvInit
    /\ nextPid = 2
    /\ launch = LaunchIdle
    /\ close = CloseIdle
    /\ closeLog = <<>>
    /\ visit = NoVisit
    /\ iter = NoIter
    /\ nIters = 0
    /\ failedKeys = {}
    /\ AdaptersIdle

\* ---------------------------------------------------------------- run_all
\* platforms or list(COLLECTORS.keys())
Target == IF platforms = <<>> THEN COLLECTORS ELSE platforms

RECURSIVE FindProfile(_, _)
FindProfile(name, i) ==
    IF i > Len(DEFAULT_PROFILES) THEN NoProfile
    ELSE IF DEFAULT_PROFILES[i].name = name THEN DEFAULT_PROFILES[i]
    ELSE FindProfile(name, i + 1)

\* lines 420-441: set-up, the override and the grouping
RunAllStart ==
    /\ pc = "start"
    /\ IF profile_override # None
       THEN LET profile == FindProfile(profile_override, 1)
            IN  IF profile = NoProfile
                THEN /\ pc' = "done"
                     /\ groups' = groups
                ELSE /\ pc' = "group"
                     /\ groups' = <<[profile |-> profile, platforms |-> Target]>>
       ELSE /\ pc' = "group"
            /\ groups' = group_platforms_by_profile(Target, DEFAULT_PROFILES)
    /\ last_profile_name' = None
    /\ UNCHANGED <<inputVars, adapterVars, gi, pi, results, cdp_data_dir, convs, envVars,
                   launch, close, closeLog, histVars>>

\* ProfileSwitch without the test for the first group
ProfileSwitchAtFirst(current_name, last_name) == current_name # last_name

\* line 446: whether the browser is closed before this group
ProfileSwitch(current_name, last_name) ==
    current_name # last_name /\ last_name # None

\* lines 443-451: the head of the loop over the groups
GroupHead ==
    /\ pc = "group"
    /\ IF gi > Len(groups)
       THEN /\ pc' = "done"
            /\ UNCHANGED <<close, closeLog>>
       ELSE LET current_name == ProfileKey(groups[gi].profile)
            IN  IF ProfileSwitch(current_name, last_profile_name)
                THEN /\ pc' = "close_chrome"
                     /\ close' = CloseCall(<<CDP_PORT>>, "group_enter")
                     /\ closeLog' = Append(closeLog, [g |-> gi, p |-> 0])
                ELSE /\ pc' = "group_enter"
                     /\ UNCHANGED <<close, closeLog>>
    /\ UNCHANGED <<inputVars, adapterVars, loopVars, results, cdp_data_dir, convs, envVars,
                   launch, histVars>>

\* lines 453-455
GroupEnter ==
    /\ pc = "group_enter"
    /\ last_profile_name' = ProfileKey(groups[gi].profile)
    /\ pi' = 1
    /\ pc' = "platform"
    /\ close' = CloseIdle
    /\ UNCHANGED <<inputVars, adapterVars, groups, gi, results, cdp_data_dir, convs, envVars,
                   launch, closeLog, histVars>>

\* line 457: the head of the loop over the group's platforms
PlatformHead ==
    /\ pc = "platform"
    /\ IF pi > Len(groups[gi].platforms)
       THEN /\ gi' = gi + 1
            /\ pc' = "group"
       ELSE /\ gi' = gi
            /\ pc' = "rc_decide"
    /\ launch' = LaunchIdle
    /\ visit' = NoVisit
    /\ iter' = NoIter
    /\ UNCHANGED <<inputVars, adapterVars, groups, pi, last_profile_name, results, cdp_data_dir,
                   convs, envVars, close, closeLog, nIters, failedKeys>>

\* ---------------------------------------------------------- run_collector
Platform == groups[gi].platforms[pi]

\* run_all line 455: the directory handed to run_collector
GroupDir == IF groups[gi].profile # NoProfile
            THEN get_cdp_data_dir(groups[gi].profile) ELSE NoDir

\* lines 262-267
ResolveDir(platform, dir) ==
    IF dir = NoDir
    THEN LET profile == get_profile_for_platform(platform, DEFAULT_PROFILES)
         IN  IF profile # NoProfile THEN get_cdp_data_dir(profile) ELSE LegacyCdpDir
    ELSE dir

\* what the port of a dead process may have become when it is next looked at
PortNow == IF port # 0 /\ ~Alive(port) THEN {port, 0} ELSE {port}

\* _is_cdp_available, of a port state
IsCdpAvailable(p) == p # 0
\* _is_chrome_running: pgrep -x "Google Chrome" finds a process
IsChromeRunning(ps) == ps # {}

\* the profile of the current group, by name
CurrentKey == ProfileKey(groups[gi].profile)

\* Decide that takes a running Chrome for one that serves the port
DecideConnectsToRunning(cdpAvailable, chromeRunning) ==
    IF cdpAvailable \/ chromeRunning THEN "connect" ELSE "launch"

\* Decide without the elif of line 272: launches beside a running Chrome
DecideDropsRunningCheck(cdpAvailable, chromeRunning) ==
    IF cdpAvailable THEN "connect" ELSE "launch"

\* Decide with a FAILED state per profile: after a failed launch the profile's
\* remaining platforms are refused
DecideSkipsFailed(cdpAvailable, chromeRunning) ==
    IF CurrentKey \in failedKeys THEN "refuse"
    ELSE IF cdpAvailable THEN "connect"
    ELSE IF chromeRunning THEN "refuse"
    ELSE "launch"

\* lines 270-291: connect to what answers, refuse beside a Chrome without CDP,
\* launch otherwise
Decide(cdpAvailable, chromeRunning) ==
    IF cdpAvailable THEN "connect"
    ELSE IF chromeRunning THEN "refuse"
    ELSE "launch"

\* one finished iteration of run_all's inner loop
Iter(platform, raised, count) ==
    [platform |-> platform, raised |-> raised, count |-> count,
     launch |-> launch.result]

\* run_collector returned n conversations to run_all
Return(n) ==
    /\ convs' = n
    /\ pc' = "persist"

\* DefaultExists of a user who wants the directory seeded at every launch
DefaultExistsNever(state) == FALSE

\* line 282: (cdp_data_dir / "Default").exists()
DefaultExists(state) == state # "absent"

\* lines 252-291, up to the launch
RunCollectorDecide ==
    /\ pc = "rc_decide"
    /\ IF Platform \notin Range(COLLECTORS)
       THEN /\ Return(0)
            /\ UNCHANGED <<cdp_data_dir, port>>
       ELSE /\ cdp_data_dir' = ResolveDir(Platform, GroupDir)
            /\ \E p \in PortNow :
                 /\ port' = p
                 /\ LET d == Decide(IsCdpAvailable(p), IsChromeRunning(procs))
                    IN  IF d = "connect" THEN pc' = "rc_connect" /\ convs' = convs
                        ELSE IF d = "refuse" THEN Return(0)
                        ELSE /\ pc' = IF DefaultExists(fs[cdp_data_dir'])
                                       THEN "launch_start" ELSE "rc_seed"
                             /\ convs' = convs
    /\ UNCHANGED <<inputVars, adapterVars, loopVars, results, procs, nextPid, fs, launch,
                   close, closeLog, histVars>>

\* ------------------------------------------------- _launch_chrome_with_cdp
\* lines 160-174: the binary is looked up and the process spawned; a missing
\* binary raises FileNotFoundError, which run_collector (288-291) turns into []
LaunchStart ==
    /\ pc = "launch_start"
    /\ \E exists \in BOOLEAN :
         IF exists
         THEN /\ procs' = procs \cup {Proc(nextPid, cdp_data_dir, TRUE, TRUE)}
              /\ nextPid' = nextPid + 1
              /\ launch' = [launch EXCEPT !.proc = nextPid, !.result = "polling"]
              \* Chrome takes the directory as its profile and keeps its
              \* session in it from now on
              /\ fs' = [fs EXCEPT ![cdp_data_dir] = "own"]
              /\ pc' = "launch_poll"
              /\ convs' = convs
              /\ failedKeys' = failedKeys
         ELSE /\ launch' = [launch EXCEPT !.result = "notfound"]
              /\ failedKeys' = failedKeys \cup {CurrentKey}
              /\ Return(0)
              /\ UNCHANGED <<procs, nextPid, fs>>
    /\ UNCHANGED <<inputVars, adapterVars, loopVars, results, cdp_data_dir, port, close,
                   closeLog, visit, iter, nIters>>

\* what the port may have become at a readiness poll: the spawned process may
\* have opened it once it is free
PortAtPoll == PortNow \cup (IF 0 \in PortNow THEN {launch.proc} ELSE {})

\* LaunchMayPoll with the bound off by one
LaunchMayPollOneMore(polls) == polls <= LAUNCH_POLLS

\* the readiness loop polls while fewer than this many polls were made
LaunchMayPoll(polls) == polls < LAUNCH_POLLS

\* lines 177-181: sleep one second, poll, return the handle when the port answers
LaunchPoll ==
    /\ pc = "launch_poll"
    /\ LaunchMayPoll(launch.polls)
    /\ \E p \in PortAtPoll :
         /\ port' = p
         /\ IF IsCdpAvailable(p)
            THEN \* the loop's counter dies with the return
                 /\ launch' = [launch EXCEPT !.polls = 0, !.slept = 0,
                                             !.result = "returned"]
                 /\ pc' = "rc_connect"
            ELSE /\ launch' = [launch EXCEPT !.polls = @ + 1, !.slept = @ + 1]
                 /\ pc' = "launch_poll"
    /\ UNCHANGED <<inputVars, adapterVars, loopVars, results, cdp_data_dir, convs, procs,
                   nextPid, fs, close, closeLog, histVars>>

\* what proc.kill() leaves of the processes after a timeout
KillSpawned(ps, pid) == {q \in ps : q.pid # pid}

\* lines 183-184: no poll answered; the process is killed and TimeoutError
\* raised, which run_collector (288-291) turns into []
LaunchTimeout ==
    /\ pc = "launch_poll"
    /\ ~LaunchMayPoll(launch.polls)
    /\ procs' = KillSpawned(procs, launch.proc)
    /\ launch' = [launch EXCEPT !.kills = @ + Cardinality(procs \ procs'),
                                !.result = "timeout"]
    /\ failedKeys' = failedKeys \cup {CurrentKey}
    /\ Return(0)
    /\ UNCHANGED <<inputVars, adapterVars, loopVars, results, cdp_data_dir, port, nextPid, fs,
                   close, closeLog, visit, iter, nIters>>

\* ------------------------------------------- run_collector, lines 293-343
\* Collected without the except clause of lines 465-467
CollectedUncaught(raised, count) ==
    IF raised
    THEN /\ pc' = "raised"
         /\ UNCHANGED <<results, iter, nIters, pi>>
    ELSE /\ results' = [q \in DOMAIN results \cup {Platform} |->
                          IF q = Platform THEN count ELSE results[q]]
         /\ iter' = Iter(Platform, raised, count)
         /\ nIters' = nIters + 1
         /\ pi' = pi + 1
         /\ pc' = "platform"

\* run_all lines 463-467: the count of one platform is stored, 0 when
\* run_collector or _persist_conversations raised
Collected(raised, count) ==
    /\ results' = [q \in DOMAIN results \cup {Platform} |->
                     IF q = Platform THEN (IF raised THEN 0 ELSE count)
                     ELSE results[q]]
    /\ iter' = Iter(Platform, raised, count)
    /\ nIters' = nIters + 1
    /\ pi' = pi + 1
    /\ pc' = "platform"

\* ---------------------------------------------------- _prepare_cdp_profile
\* lines 115-146, called at 282-284: Default is created and the session files
\* are copied into it; a copy that fails is skipped (135-138), a mkdir that
\* fails (122) raises through run_collector to run_all (465)
PrepareCdpProfile ==
    /\ pc = "rc_seed"
    /\ \/ /\ fs' = [fs EXCEPT ![cdp_data_dir] = "seeded"]
          /\ launch' = [launch EXCEPT !.seeded = TRUE]
          /\ pc' = "launch_start"
          /\ UNCHANGED <<results, iter, nIters, pi>>
       \/ /\ Collected(TRUE, 0)
          /\ UNCHANGED <<fs, launch>>
    /\ UNCHANGED <<inputVars, adapterVars, groups, gi, last_profile_name, cdp_data_dir, convs,
                   procs, port, nextPid, close, closeLog, visit, failedKeys>>

\* what a page yields once the browser is connected: 0 for a failed login
\* check (310-316), an empty list (320-322) or an exception (334-341),
\* otherwise the number of conversations the date filter keeps (324-326)
ScrapeOutcomes == 0..MaxConvs

RunCollectorConnect ==
    /\ pc = "rc_connect"
    /\ \/ \* async_playwright() fails to start: outside the try of 296-341,
          \* the exception leaves run_collector and run_all catches it (465)
          /\ Collected(TRUE, 0)
          /\ UNCHANGED <<convs, visit>>
       \/ IF port # 0 /\ Alive(port)
          THEN \* connect_over_cdp reaches the process that holds the port
               /\ visit' = [platform |-> Platform, browser |-> ProcOf(port).dir,
                             wanted |-> cdp_data_dir]
               /\ \E n \in ScrapeOutcomes : Return(n)
               /\ UNCHANGED <<results, iter, nIters, pi>>
          ELSE \* nothing serves the port: connect_over_cdp raises, caught at 334
               /\ Return(0)
               /\ UNCHANGED <<results, iter, nIters, pi, visit>>
    /\ UNCHANGED <<inputVars, adapterVars, groups, gi, last_profile_name, cdp_data_dir, envVars,
                   launch, close, closeLog, failedKeys>>

\* run_all lines 463-467: _persist_conversations returns the number inserted
\* or raises
Persist ==
    /\ pc = "persist"
    /\ \E ok \in BOOLEAN : Collected(~ok, convs)
    /\ UNCHANGED <<inputVars, adapterVars, groups, gi, last_profile_name, cdp_data_dir, convs,
                   envVars, launch, close, closeLog, visit, failedKeys>>

\* ----------------------------------------------------------- _close_chrome
\* lines 111-112: how _close_chrome ends when a call inside its try raises
OnCloseError == "returned"

\* where the thread goes when _close_chrome ends: back to the caller, or, with
\* an exception, out of run_all, which calls it outside any try (line 451)
AfterClose(state) == IF state = "raised" THEN "raised" ELSE close.ret

CloseEnds(state, caught) ==
    /\ close' = [close EXCEPT !.state = state, !.caught = caught]
    /\ pc' = AfterClose(state)

\* the pids pgrep prints
Pids(ps) == {q.pid : q \in ps}

\* lines 71-83: pgrep; nothing to do without a Chrome; SIGTERM to every pid.
\* os.kill may fail with an error other than ProcessLookupError (a process of
\* another user), which ends the call in the except clause
CloseStart ==
    /\ pc = "close_chrome"
    /\ IF ~IsChromeRunning(procs)
       THEN CloseEnds("returned", FALSE)
       ELSE \E err \in BOOLEAN :
              IF err THEN /\ close' = [close EXCEPT !.found = TRUE,
                                                     !.state = OnCloseError,
                                                     !.caught = TRUE]
                          /\ pc' = AfterClose(OnCloseError)
              ELSE /\ close' = [close EXCEPT !.found = TRUE, !.term = Pids(procs)]
                   /\ pc' = "close_grace"
    /\ UNCHANGED <<inputVars, adapterVars, loopVars, results, cdp_data_dir, convs, envVars,
                   launch, closeLog, histVars>>

\* the processes left when the signalled ones have gone
Gone(ps, pids) == {q \in ps : q.pid \notin pids}

\* GraceMayPoll with a grace period one poll short
GraceMayPollShort(polls) == polls < GRACE_POLLS - 1

\* the grace loop polls while fewer than this many polls were made
GraceMayPoll(polls) == polls < GRACE_POLLS

\* lines 85-89: sleep half a second, look for Chrome, stop when it has gone
CloseGracePoll ==
    /\ pc = "close_grace"
    /\ GraceMayPoll(close.polls)
    /\ \E gone \in BOOLEAN :
         /\ procs' = IF gone THEN Gone(procs, close.term) ELSE procs
         /\ IF ~IsChromeRunning(procs')
            THEN \* break: the loop's counter dies with the loop
                 /\ close' = [close EXCEPT !.polls = 0, !.exited = TRUE]
                 /\ pc' = "close_port"
            ELSE /\ close' = [close EXCEPT !.polls = @ + 1]
                 /\ pc' = "close_grace"
    /\ UNCHANGED <<inputVars, adapterVars, loopVars, results, cdp_data_dir, convs, port, nextPid,
                   fs, launch, closeLog, histVars>>

\* whether SIGKILL is sent once the grace loop ran out: line 95
MustKill(ps) == IsChromeRunning(ps)

\* lines 90-103: the loop ran out; pgrep again and SIGKILL what is left
CloseForceKill ==
    /\ pc = "close_grace"
    /\ ~GraceMayPoll(close.polls)
    /\ \E gone \in BOOLEAN :
         LET left == IF gone THEN Gone(procs, close.term) ELSE procs
         IN  IF MustKill(left)
             THEN \E err \in BOOLEAN :
                    IF err
                    THEN /\ procs' = left
                         /\ CloseEnds(OnCloseError, TRUE)
                    ELSE /\ procs' = {}
                         /\ close' = [close EXCEPT !.kill = Pids(procs)]
                         /\ pc' = "close_port"
             ELSE /\ procs' = left
                  /\ close' = close
                  /\ pc' = "close_port"
    /\ UNCHANGED <<inputVars, adapterVars, loopVars, results, cdp_data_dir, convs, port, nextPid,
                   fs, launch, closeLog, histVars>>

\* the port loop polls while a port was given and fewer than this many polls
\* were made
PortMayPoll(cdp_port, polls) == cdp_port # <<>> /\ polls < PORT_POLLS

\* lines 105-109: poll the port, stop when it no longer answers, else sleep
ClosePortPoll ==
    /\ pc = "close_port"
    /\ PortMayPoll(close.cdp_port, close.portPolls)
    /\ \E p \in PortNow :
         /\ port' = p
         /\ IF ~IsCdpAvailable(p)
            THEN /\ close' = [close EXCEPT !.portPolls = @ + 1, !.state = "returned"]
                 /\ pc' = close.ret
            ELSE /\ close' = [close EXCEPT !.portPolls = @ + 1]
                 /\ pc' = "close_port"
    /\ UNCHANGED <<inputVars, adapterVars, loopVars, results, cdp_data_dir, convs, procs, nextPid,
                   fs, launch, closeLog, histVars>>

\* lines 105-109: no port was given, or the loop ran out
ClosePortDone ==
    /\ pc = "close_port"
    /\ ~PortMayPoll(close.cdp_port, close.portPolls)
    /\ CloseEnds("returned", FALSE)
    /\ UNCHANGED <<inputVars, adapterVars, loopVars, results, cdp_data_dir, convs, envVars,
                   launch, closeLog, histVars>>

\* ------------------------------------------------------------ specification
Next ==
    \/ RunAllStart
    \/ GroupHead
    \/ GroupEnter
    \/ PlatformHead
    \/ RunCollectorDecide
    \/ PrepareCdpProfile
    \/ LaunchStart
    \/ LaunchPoll
    \/ LaunchTimeout
    \/ RunCollectorConnect
    \/ Persist
    \/ CloseStart
    \/ CloseGracePoll
    \/ CloseForceKill
    \/ ClosePortPoll
    \/ ClosePortDone

Spec == Init /\ [][Next]_vars

TypeOK ==
    /\ pc \in {"start", "group", "group_enter", "platform", "rc_decide", "rc_seed",
               "launch_start", "launch_poll", "rc_connect", "persist",
               "close_chrome", "close_grace", "close_port", "done", "raised"}
    /\ port \in 0..nextPid

\* ------------------------------------- group_platforms_by_profile, alone
\* platform names with every collector's, for the grouping alone
AllNames == InputPlatforms \cup Range(COLLECTORS)

InitRest ==
    /\ profile_override = None
    /\ groups = <<>>
    /\ gi = 1
    /\ pi = 1
    /\ last_profile_name = None
    /\ results = [p \in {} |-> 0]
    /\ cdp_data_dir = NoDir
    /\ convs = 0
    /\ nextPid = 3
    /\ fs = [d \in CdpDirs |-> "own"]
    /\ launch = LaunchIdle
    /\ closeLog = <<>>
    /\ visit = NoVisit
    /\ iter = NoIter
    /\ nIters = 0
    /\ failedKeys = {}

InitGroup ==
    /\ AdaptersIdle
    /\ platforms \in SeqsUpTo(AllNames, MaxPlatforms)
    /\ procs = {}
    /\ port = 0
    /\ close = CloseIdle
    /\ pc = "start"
    /\ InitRest

\* group_platforms_by_profile(platforms), the list given as it is
GroupOnly ==
    /\ pc = "start"
    /\ groups' = group_platforms_by_profile(platforms, DEFAULT_PROFILES)
    /\ pc' = "done"
    /\ UNCHANGED <<inputVars, adapterVars, gi, pi, last_profile_name, results, cdp_data_dir,
                   convs, envVars, launch, close, closeLog, histVars>>

NextGroup == GroupOnly

SpecGroup == InitGroup /\ [][NextGroup]_vars

\* ------------------------------------------------------ _close_chrome, alone
\* a Chrome launched on the debug port under the personal profile
CdpChrome == Proc(2, <<"data", "chrome_cdp_profiles", "personal">>, TRUE, TRUE)

\* any of the two Chromes running, the port free or answering for the CDP
\* Chrome (alive, or gone with its port not yet released), with or without
\* the cdp_port argument
InitClose ==
    /\ AdaptersIdle
    /\ platforms = <<>>
    /\ procs \in SUBSET {UserChrome, CdpChrome}
    /\ port \in {0, CdpChrome.pid}
    /\ \E cdp_port \in {<<>>, <<CDP_PORT>>} : close = CloseCall(cdp_port, "done")
    /\ InitRest
    /\ pc = "close_chrome"

NextClose ==
    \/ CloseStart
    \/ CloseGracePoll
    \/ CloseForceKill
    \/ ClosePortPoll
    \/ ClosePortDone

SpecClose == InitClose /\ [][NextClose]_vars

\* ------------------------------------------------------------ API adapters
\* collect_claude, collect_chatgpt, collect_fyxer, collect_granola: each gets
\* its credential, makes its set-up calls and lists the provider's records.
\* The provider and the files on disk answer inside the step that asks them.
Adapters == {"claude", "chatgpt", "fyxer", "granola"}
Paginating == {"chatgpt", "fyxer", "granola"}

\* buffer_ms = _TOKEN_EXPIRY_BUFFER_S * 1000 (firebase_idb.py line 363)
FirebaseBufferMs == FIREBASE_TOKEN_EXPIRY_BUFFER_S * 1000
GranolaBufferMs == GRANOLA_TOKEN_EXPIRY_BUFFER_S * 1000

\* TokenValid with the boundary counted as valid
TokenValidAtBoundary(expiration_time, now) ==
    expiration_time >= now + FirebaseBufferMs

\* firebase_idb.py line 365: expiration_time > (now_ms + buffer_ms)
TokenValid(expiration_time, now) == expiration_time > now + FirebaseBufferMs

\* granola_api.py lines 66-69, with expires_at = obtained_at_s + expires_in_s:
\* expiry = expires_at - buffer; time.time() > expiry
IsTokenExpired(expires_at, now) == now > expires_at - GranolaBufferMs

Got(token, calls) == [token |-> token, refreshCalls |-> calls, error |-> None]
Failed(calls, error) == [token |-> "none", refreshCalls |-> calls, error |-> error]

\* refresh_id_token (firebase_idb.py 311-335): one POST; raise_for_status
\* raises HTTPStatusError, the transport raises a RequestError
RefreshIdToken ==
    {Got("fresh", 1), Failed(1, "HTTPStatusError"), Failed(1, "RequestError")}

\* get_firebase_token (firebase_idb.py 338-372): what it may return or raise
\* for a stored record that expires at expiration_time
GetFirebaseToken(expiration_time, now) ==
    {Failed(0, "FileNotFoundError"), Failed(0, "ValueError")}
        \cup (IF TokenValid(expiration_time, now)
              THEN {Got("stored", 0)}
              ELSE RefreshIdToken)

\* _read_tokens and the expiry check of collect_granola (146-161): the file
\* is missing, is no JSON or lacks a key (ValueError), or is JSON of another
\* shape (data.get or int() fail with AttributeError or TypeError)
ReadGranolaToken(expires_at, now) ==
    {Failed(0, "FileNotFoundError"), Failed(0, "ValueError"),
     Failed(0, "AttributeError")}
        \cup (IF IsTokenExpired(expires_at, now)
              THEN {Failed(0, "expired")}
              ELSE {Got("stored", 0)})

\* _get_session_cookie of claude_api.py and chatgpt_api.py: the cookie, or
\* the store is missing, the cookie is missing, or the store cannot be read
ReadSessionCookie ==
    {Got("stored", 0), Failed(0, "FileNotFoundError"), Failed(0, "ValueError"),
     Failed(0, "sqlite3.Error")}

Credential(c) ==
    CASE c = "fyxer" -> GetFirebaseToken(expires_ms, now_ms)
      [] c = "granola" -> ReadGranolaToken(expires_ms, now_ms)
      [] OTHER -> ReadSessionCookie

AnyError == {"FileNotFoundError", "ValueError", "AttributeError", "sqlite3.Error",
             "HTTPStatusError", "RequestError", "expired"}

\* the except clauses around the credential: claude_api.py 88-95,
\* chatgpt_api.py 99-106, fyxer_api.py 257-270, granola_api.py 148-161
CredentialCaught(c) ==
    CASE c = "fyxer" -> {"FileNotFoundError", "ValueError", "HTTPStatusError"}
      [] c = "granola" -> {"FileNotFoundError", "ValueError", "expired"}
      [] OTHER -> AnyError

\* what a set-up call may raise: a non-2xx answer, a transport error, an
\* answer without the expected content
SetupRaises == {"HTTPStatusError", "RequestError", "ValueError"}

\* the except clauses around the first set-up call: claude_api.py 97-108
\* (_get_org_id), chatgpt_api.py 108-123 (_get_access_token), fyxer_api.py
\* 272-276 (_discover_user_org)
SetupCaught(c) ==
    IF c = "fyxer" THEN {"ValueError", "HTTPStatusError"} ELSE AnyError

\* fyxer_api.py 278-282: around _detect_recording_collection
DetectCaught == {"ValueError"}

\* the except clauses around a list request: chatgpt_api.py 132-139,
\* fyxer_api.py 293-301, granola_api.py 171-176, claude_api.py 112-117
PageCaught == {"HTTPStatusError", "RequestError"}
\* what a list request may raise: resp.json() raises ValueError on a body
\* that is no JSON
PageRaises == {"HTTPStatusError", "RequestError", "ValueError"}

MaxPagesOf(c) ==
    CASE c = "chatgpt" -> CHATGPT_MAX_PAGES
      [] c = "fyxer" -> FYXER_MAX_PAGES
      [] c = "granola" -> GRANOLA_MAX_PAGES

PageSizeOf(c) ==
    CASE c = "chatgpt" -> CHATGPT_PAGE_SIZE
      [] c = "fyxer" -> FYXER_PAGE_SIZE
      [] c = "granola" -> GRANOLA_PAGE_SIZE

\* the collect function returns [] / the list gathered / raises
ReturnEmpty(at, error) ==
    /\ returned' = [kind |-> "empty", at |-> at, error |-> error, n |-> 0]
    /\ pc' = "api_done"
ReturnList(at, error) ==
    /\ returned' = [kind |-> "list", at |-> at, error |-> error, n |-> page'.kept]
    /\ pc' = "api_done"
Raise(at, error) ==
    /\ returned' = [kind |-> "raised", at |-> at, error |-> error, n |-> 0]
    /\ pc' = "api_raised"

\* a step that failed with error: [] when the step's except clauses catch it
Fail(at, error, caught) ==
    IF error \in caught THEN ReturnEmpty(at, error) ELSE Raise(at, error)

\* the credential: claude_api.py 88-95, chatgpt_api.py 99-106, fyxer_api.py
\* 257-270, granola_api.py 146-161
ApiCredential ==
    /\ pc = "api_cred"
    /\ \E r \in Credential(collector) :
         /\ auth' = [token |-> r.token, refreshCalls |-> r.refreshCalls]
         /\ IF r.error = None
            THEN /\ pc' = IF collector = "granola" THEN "api_page" ELSE "api_setup"
                 /\ returned' = returned
            ELSE Fail("credential", r.error, CredentialCaught(collector))
    /\ UNCHANGED <<runnerVars, helperVars, appCheckVars, cookieVars, collector, now_ms, expires_ms, page>>

\* the first set-up call: claude_api.py 97-108, chatgpt_api.py 108-123,
\* fyxer_api.py 272-276
ApiSetup ==
    /\ pc = "api_setup"
    /\ \/ /\ pc' = CASE collector = "claude" -> "api_fetch"
                     [] collector = "chatgpt" -> "api_page"
                     [] collector = "fyxer" -> "api_detect"
          /\ returned' = returned
       \/ \E e \in SetupRaises : Fail("setup", e, SetupCaught(collector))
    /\ UNCHANGED <<runnerVars, helperVars, appCheckVars, cookieVars, collector, now_ms, expires_ms, auth, page>>

\* fyxer_api.py 278-282: _detect_recording_collection; the probes of the
\* known names skip a transport error (222-223), _list_subcollections does not
ApiDetect ==
    /\ pc = "api_detect"
    /\ \/ pc' = "api_page" /\ returned' = returned
       \/ \E e \in SetupRaises : Fail("setup", e, DetectCaught)
    /\ UNCHANGED <<runnerVars, helperVars, appCheckVars, cookieVars, collector, now_ms, expires_ms, auth, page>>

\* how many records of a page of so many items may be dated before the
\* cutoff: none, or one while fewer than MaxOldPages pages held one
OldIn(items, oldPages) ==
    IF items > 0 /\ oldPages < MaxOldPages THEN {0, 1} ELSE {0}

\* the loop over the items of a page: chatgpt_api.py 145-160, fyxer_api.py
\* 306-336, granola_api.py 181-206, claude_api.py 122-139; a record dated
\* before the cutoff is skipped, the others are appended
Gathered(p, items, old) ==
    [p EXCEPT !.fetched = @ + items, !.kept = @ + (items - old),
              !.oldPages = @ + old]

\* claude_api.py 110-146: one list request, no pagination
ApiFetchAll ==
    /\ pc = "api_fetch"
    /\ \/ \E old \in OldIn(1, page.oldPages) :
            /\ page' = Gathered([page EXCEPT !.requests = 1, !.items = 1], 1, old)
            /\ ReturnList("list", None)
       \/ /\ page' = [page EXCEPT !.requests = 1, !.items = -1]
          /\ \E e \in PageRaises : Fail("list", e, PageCaught)
    /\ UNCHANGED <<runnerVars, helperVars, appCheckVars, cookieVars, collector, now_ms, expires_ms, auth>>

\* MayPage with the bound off by one
MayPageOneMore(c, requests) == requests <= MaxPagesOf(c)

\* for _page in range(_MAX_PAGES): another iteration is made
MayPage(c, requests) == requests < MaxPagesOf(c)

\* Stops as "a page shorter than the page size ends the pagination"
StopsOnShortPage(c, items, more) == items < PageSizeOf(c)

\* whether the loop is left after a page of so many items; more is
\* offset < total for chatgpt (162-165) and a next page token for fyxer
\* (338-339): chatgpt_api.py 141-143 and 162-165, fyxer_api.py 303-304 and
\* 338-339, granola_api.py 178-179 and 208-209
Stops(c, items, more) ==
    \/ items = 0
    \/ CASE c = "chatgpt" -> ~more \/ items < PageSizeOf(c)
         [] c = "fyxer" -> ~more
         [] c = "granola" -> items < PageSizeOf(c)

\* OnPageError with the request made again in the next iteration
OnPageErrorRetries(at, e) ==
    IF e \in PageCaught THEN pc' = "api_page" /\ returned' = returned
    ELSE Raise(at, e)

\* the except clauses of the loop: chatgpt_api.py 132-139, fyxer_api.py
\* 293-301, granola_api.py 171-176: break, and the list is returned
OnPageError(at, e) ==
    IF e \in PageCaught THEN ReturnList(at, e) ELSE Raise(at, e)

\* one iteration of the pagination loop: chatgpt_api.py 129-165, fyxer_api.py
\* 288-339, granola_api.py 168-210; a caught error ends the loop and the
\* records gathered are returned
ApiPage ==
    /\ pc = "api_page"
    /\ MayPage(collector, page.requests)
    /\ \/ \E e \in PageRaises :
            /\ page' = [page EXCEPT !.requests = @ + 1, !.items = -1,
                                    !.more = FALSE]
            /\ OnPageError("list", e)
       \/ \E items \in {0, 1, PageSizeOf(collector)}, more \in BOOLEAN :
          \E old \in OldIn(items, page.oldPages) :
            /\ page' = Gathered([page EXCEPT !.requests = @ + 1, !.items = items,
                                             !.more = more], items, old)
            /\ IF Stops(collector, items, more)
               THEN ReturnList("list", None)
               ELSE pc' = "api_page" /\ returned' = returned
    /\ UNCHANGED <<runnerVars, helperVars, appCheckVars, cookieVars, collector, now_ms, expires_ms, auth>>

\* the else of the for loop: chatgpt_api.py 166-167, fyxer_api.py 340-344,
\* granola_api.py 211-214
ApiPageLimit ==
    /\ pc = "api_page"
    /\ ~MayPage(collector, page.requests)
    /\ page' = [page EXCEPT !.warned = TRUE]
    /\ ReturnList("limit", None)
    /\ UNCHANGED <<runnerVars, helperVars, appCheckVars, cookieVars, collector, now_ms, expires_ms, auth>>

\* the runner at rest
RunnerIdle ==
    /\ platforms = <<>>
    /\ procs = {}
    /\ port = 0
    /\ close = CloseIdle
    /\ InitRest

\* any adapter, with a stored token that expires around now + buffer
InitApi ==
    /\ RunnerIdle
    /\ HelpersAtRest
    /\ collector \in Adapters
    /\ now_ms \in {0, 1000000000}
    /\ expires_ms \in {0} \cup {now_ms + FirebaseBufferMs + d :
                                  d \in {-1000, -1, 0, 1, 1000}}
    /\ auth = AuthIdle
    /\ page = PageIdle
    /\ returned = RetIdle
    /\ AppCheckAtRest
    /\ CookiesAtRest
    /\ pc = "api_cred"

NextApi ==
    \/ ApiCredential
    \/ ApiSetup
    \/ ApiDetect
    \/ ApiFetchAll
    \/ ApiPage
    \/ ApiPageLimit

SpecApi == InitApi /\ [][NextApi]_vars

\* ------------------------------------------------------- get_app_check_token
\* firebase_idb.py 186-308.  A store is the IndexedDB directory of the domain
\* in one profile: dir, whether the directory exists; token, whether it holds
\* an App Check record; expire, the record's expireTimeMillis (0 when absent)
Store(dir, token, expire) == [dir |-> dir, token |-> token, expire |-> expire]
\* the regular profile (CHROME_IDB_BASE), the automation profile
\* (CDP_IDB_BASE) and the dedicated one (_APP_CHECK_PROFILE_DIR)
StoreNames == {"chrome", "cdp", "browser"}

\* _find_idb_path (53-74): the first of the two directories that exists
FindIdbPath(st) ==
    IF st["chrome"].dir THEN "chrome"
    ELSE IF st["cdp"].dir THEN "cdp"
    ELSE None

\* _extract_valid_app_check (186-197): the store yields a token; a missing
\* directory or record is FileNotFoundError or ValueError, caught at 190
ExtractValidAppCheck(store, now) ==
    /\ store.dir
    /\ store.token
    /\ ~(store.expire > 0 /\ store.expire < now)

\* get_app_check_token returns: the token of a store, or None, or raises
AppCheckReturn(result, from) ==
    /\ appCheck' = [appCheck EXCEPT !.result = result, !.from = from]
    /\ pc' = IF result = "raised" THEN "ac_raised" ELSE "ac_done"

\* lines 285-304: the stores on disk
AppCheckLookup ==
    /\ pc = "ac_lookup"
    /\ LET idb_path == FindIdbPath(stores)
       IN  IF idb_path # None /\ ExtractValidAppCheck(stores[idb_path], now_ms)
           THEN AppCheckReturn("token", idb_path)
           ELSE IF ExtractValidAppCheck(stores["browser"], now_ms)
           THEN AppCheckReturn("token", "browser")
           ELSE pc' = "ac_refresh" /\ appCheck' = appCheck
    /\ UNCHANGED <<runnerVars, helperVars, apiVars, cookieVars, stores>>

\* what the visited page's SDK may leave in the dedicated store
AfterVisit(store, now) ==
    {Store(TRUE, store.token, store.expire), Store(TRUE, TRUE, now + 1)}

\* lines 306-308 and _refresh_app_check_via_browser (226-272): the profile is
\* seeded (237-240, outside the try: a failing mkdir or copy2 raises), the
\* helper is run (242-263) and the dedicated store read again (265-272)
AppCheckRefresh ==
    /\ pc = "ac_refresh"
    /\ \/ /\ AppCheckReturn("raised", None)
          /\ stores' = stores
       \/ /\ appCheck' = [appCheck EXCEPT !.visits = @ + 1, !.result = "None"]
          /\ pc' = "ac_done"
          /\ stores' = stores
       \/ \E after \in AfterVisit(stores["browser"], now_ms) :
            /\ stores' = [stores EXCEPT !["browser"] = after]
            /\ appCheck' = [appCheck EXCEPT
                              !.visits = @ + 1,
                              !.result = IF ExtractValidAppCheck(after, now_ms)
                                         THEN "token" ELSE "None",
                              !.from = IF ExtractValidAppCheck(after, now_ms)
                                       THEN "browser" ELSE None]
            /\ pc' = "ac_done"
    /\ UNCHANGED <<runnerVars, helperVars, apiVars, cookieVars>>

\* each store absent, without a record, or with a record that has no expiry,
\* has expired or has not
InitAppCheck ==
    /\ RunnerIdle
    /\ HelpersAtRest
    /\ ApiIdle
    /\ now_ms = 1000000000
    /\ stores \in [StoreNames ->
                    {Store(FALSE, FALSE, 0), Store(TRUE, FALSE, 0)}
                        \cup {Store(TRUE, TRUE, e) : e \in {0, now_ms - 1, now_ms + 1}}]
    /\ appCheck = AppCheckIdle
    /\ CookiesAtRest
    /\ pc = "ac_lookup"

NextAppCheck ==
    \/ AppCheckLookup
    \/ AppCheckRefresh

SpecAppCheck == InitAppCheck /\ [][NextAppCheck]_vars

\* ------------------------------------------------------------ Chrome cookies
\* chrome_cookies.py.  Bytes are numbers 0..255, byte strings are sequences.
\* AES with the Keychain key is stood for by a keyed permutation of the byte
\* values, applied in CBC mode as the code applies AES: what matters below
\* is the framing (tag, blocks, padding, domain hash), which is modelled as
\* written.
RECURSIVE XorBits(_, _, _)
XorBits(a, b, n) ==
    IF n = 0 THEN 0
    ELSE (((a % 2) + (b % 2)) % 2) + 2 * XorBits(a \div 2, b \div 2, n - 1)
Xor(a, b) == XorBits(a, b, 8)

\* _IV = b" " * 16
IV == [i \in 1..AES_BLOCK |-> 32]
\* b"v10"
TagV10 == <<118, 49, 48>>

\* the block cipher and its inverse, on one byte
AesByte(key, v) == ((v * 5) + key) % 256
AesByteInv(key, v) == ((v + 256 - key) * 205) % 256

RECURSIVE CbcEncryptFrom(_, _, _)
CbcEncryptFrom(key, plain, done) ==
    IF Len(done) = Len(plain) THEN done
    ELSE LET i == Len(done) + 1
             prev == IF i <= AES_BLOCK THEN IV[i] ELSE done[i - AES_BLOCK]
         IN  CbcEncryptFrom(key, plain,
                            Append(done, AesByte(key, Xor(plain[i], prev))))

\* AES.new(key, AES.MODE_CBC, iv=_IV).encrypt(padded)
CbcEncrypt(key, plain) == CbcEncryptFrom(key, plain, <<>>)

\* AES.new(key, AES.MODE_CBC, iv=_IV).decrypt(data), for whole blocks
CbcDecrypt(key, data) ==
    [i \in 1..Len(data) |->
        Xor(AesByteInv(key, data[i]),
            IF i <= AES_BLOCK THEN IV[i] ELSE data[i - AES_BLOCK])]

Repeat(b, n) == [i \in 1..n |-> b]

\* PKCS7: pad_len = 16 - len % 16 bytes of value pad_len
Pkcs7Pad(plain) ==
    LET pad_len == AES_BLOCK - (Len(plain) % AES_BLOCK)
    IN  plain \o Repeat(pad_len, pad_len)

\* the 32-byte SHA-256 of the host key Chrome prepends from version 24 on
DomainHash == Repeat(171, DOMAIN_HASH_LEN)

\* Chrome's v10 encryption of a cookie value, as the tests build it
EncryptValue(x, key, db_version) ==
    LET plain == IF db_version >= HASH_DB_VERSION THEN DomainHash \o x ELSE x
    IN  TagV10 \o CbcEncrypt(key, Pkcs7Pad(plain))

\* bytes.decode("utf-8", errors="replace"), for single-byte input: a byte
\* that is no ASCII character becomes U+FFFD
DecodeUtf8(bytes) == [i \in 1..Len(bytes) |-> IF bytes[i] < 128 THEN bytes[i] ELSE 65533]

Value(v) == [raised |-> FALSE, value |-> v]
ValueError == [raised |-> TRUE, value |-> <<>>]

\* lines 68-71: the PKCS7 padding is removed
Unpad(decrypted) ==
    LET padding_len == decrypted[Len(decrypted)]
    IN  IF 0 < padding_len /\ padding_len <= 16
        THEN SubSeq(decrypted, 1, Len(decrypted) - padding_len)
        ELSE decrypted

\* lines 73-75: the domain hash is stripped
StripHash(decrypted, db_version) ==
    IF db_version >= HASH_DB_VERSION /\ Len(decrypted) > DOMAIN_HASH_LEN
    THEN SubSeq(decrypted, DOMAIN_HASH_LEN + 1, Len(decrypted))
    ELSE decrypted

\* _decrypt_value (50-77); cipher.decrypt raises ValueError for data that is
\* no whole number of blocks
DecryptValue(encrypted, key, db_version) ==
    IF Len(encrypted) <= 3 THEN Value(<<>>)
    ELSE IF SubSeq(encrypted, 1, 3) # TagV10 THEN Value(<<>>)
    ELSE LET data == SubSeq(encrypted, 4, Len(encrypted))
         IN  IF (Len(data) % AES_BLOCK) # 0 THEN ValueError
             ELSE Value(DecodeUtf8(StripHash(Unpad(CbcDecrypt(key, data)),
                                             db_version)))

\* a row of the cookies table; plain is the value the encrypted blob was
\* made from, when it was made from one
NoPlain == <<-1>>
Row(value, encrypted_value, plain) ==
    [value |-> value, encrypted_value |-> encrypted_value, plain |-> plain]

\* the row with its host_key and name columns
Cookie(host_key, name, r) ==
    [host_key |-> host_key, name |-> name, value |-> r.value,
     encrypted_value |-> r.encrypted_value, plain |-> r.plain]

\* a host name: its leading dots, one by one, and the rest
ExampleCom == <<"example.com">>
OtherOrg == <<"other.org">>
\* f".{domain}"
Dotted(d) == <<".">> \o d
\* host_key.lstrip(".")
RECURSIVE LStripDots(_)
LStripDots(h) == IF h # <<>> /\ h[1] = "." THEN LStripDots(Tail(h)) ELSE h

\* cookie values of the lengths around a block and around the domain hash
PlainValues ==
    {Repeat(b, n) : b \in {65, 16}, n \in {0, 1, 15, 16, 17, 31, 32, 33}}

\* blobs that are no v10 encryption: empty, shorter than the tag, of another
\* tag, of a length that is no whole number of blocks
BadBlobs ==
    {<<>>, <<118, 49>>, TagV10, <<118, 50, 48>> \o Repeat(97, 6),
     TagV10 \o Repeat(97, 5)}

RowsFor(key, db_version) ==
    {Row(<<>>, EncryptValue(x, key, db_version), x) : x \in PlainValues}
        \cup {Row(<<>>, b, NoPlain) : b \in BadBlobs}
        \cup {Row(<<80>>, <<>>, NoPlain)}

\* the name of the i-th row
NameOf(i) == i

\* line 112: hosts = [domain, f".{domain}"]
HostsOf(domain) == {domain, Dotted(domain)}

\* Select without the WHERE clause
SelectAll(table, hosts) == table

\* lines 114-118: SELECT ... FROM cookies WHERE host_key IN (hosts)
Select(table, hosts) == SelectSeq(table, LAMBDA r : r.host_key \in hosts)

\* cookies[name] = v
Put(cookies, name, v) ==
    [n \in DOMAIN cookies \cup {name} |-> IF n = name THEN v ELSE cookies[n]]

\* lines 121-128, from row i on: None when _decrypt_value raised
RECURSIVE CookieLoop(_, _, _, _, _)
CookieLoop(rows, key, db_version, i, cookies) ==
    IF i > Len(rows) THEN [raised |-> FALSE, cookies |-> cookies]
    ELSE LET r == rows[i]
         IN  IF r.value # <<>>
             THEN CookieLoop(rows, key, db_version, i + 1, Put(cookies, r.name, r.value))
             ELSE IF r.encrypted_value # <<>>
             THEN LET d == DecryptValue(r.encrypted_value, key, db_version)
                  IN  IF d.raised THEN [raised |-> TRUE, cookies |-> cookies]
                      ELSE IF d.value # <<>>
                      THEN CookieLoop(rows, key, db_version, i + 1,
                                      Put(cookies, r.name, d.value))
                      ELSE CookieLoop(rows, key, db_version, i + 1, cookies)
             ELSE CookieLoop(rows, key, db_version, i + 1, cookies)

\* the steps of a call that fail for what the machine holds, in the order of
\* the code: the database is missing (98-99), the Keychain gives no key
\* (101), the copy (108), the connection (109) or the query (114-118) fails
EnvSteps == {"exists", "key", "copy", "open", "query"}

\* lines 103-105: the temp file is made once the database was found and the
\* key derived; at is the step that failed, "none" when none did
TmpCreated(at) == at \notin {"exists", "key"}

\* InTry with the copy made before the try is entered
InTryAfterCopy(at) == at \notin {"exists", "key", "copy"}

\* lines 107-133: the steps inside the try, whose finally unlinks the temp file
InTry(at) == at \notin {"exists", "key"}

\* what is left of the temp file when the call ends at step at
TmpAfter(at) ==
    IF ~TmpCreated(at) THEN "none"
    ELSE IF InTry(at) THEN "removed" ELSE "exists"

\* the decryption of every row's blob, whether the call asked for it or not
ValuesOf(db) ==
    [i \in DOMAIN db.rows |->
        DecryptValue(db.rows[i].encrypted_value, db.key, db.db_version)]

\* get_cookies_for_domain (89-133): a step fails for what the machine holds,
\* or the matching rows are read and decrypted
GetCookiesForDomain ==
    /\ pc = "ck_start"
    /\ \/ \E at \in EnvSteps :
            /\ cookieOut' = [cookieOut EXCEPT !.raised = TRUE, !.at = at,
                                              !.tmp = TmpAfter(at)]
            /\ pc' = "ck_raised"
       \/ LET out == CookieLoop(Select(cookieDb.rows, HostsOf(cookieDb.domain)),
                                cookieDb.key, cookieDb.db_version, 1, <<>>)
              at == IF out.raised THEN "decrypt" ELSE "none"
          IN  /\ cookieOut' = [raised |-> out.raised,
                               at |-> at,
                               cookies |-> out.cookies,
                               values |-> ValuesOf(cookieDb),
                               tmp |-> TmpAfter(at)]
              /\ pc' = IF out.raised THEN "ck_raised" ELSE "ck_done"
    /\ UNCHANGED <<runnerVars, helperVars, apiVars, appCheckVars, cookieDb>>

\* lines 158-160: hosts.extend([d, f".{d}"]) for every domain
HostsOfAll(domains) == UNION {HostsOf(domains[i]) : i \in DOMAIN domains}

\* lines 175-178: the first domain the host key belongs to, else dflt
RECURSIVE FirstDomainOf(_, _, _, _)
FirstDomainOf(host_key, domains, i, dflt) ==
    IF i > Len(domains) THEN dflt
    ELSE IF host_key \in HostsOf(domains[i]) THEN domains[i]
    ELSE FirstDomainOf(host_key, domains, i + 1, dflt)

\* lines 173-178: matched_domain
MatchedDomain(host_key, domains, result) ==
    IF LStripDots(host_key) \in DOMAIN result THEN LStripDots(host_key)
    ELSE FirstDomainOf(host_key, domains, 1, LStripDots(host_key))

\* lines 171-187, from row i on
RECURSIVE DomainsLoop(_, _, _, _, _, _)
DomainsLoop(rows, domains, key, db_version, i, result) ==
    IF i > Len(rows) THEN [raised |-> FALSE, cookies |-> result]
    ELSE LET r == rows[i]
             matched_domain == MatchedDomain(r.host_key, domains, result)
             d == IF r.value # <<>> THEN Value(r.value)
                  ELSE IF r.encrypted_value # <<>>
                  THEN DecryptValue(r.encrypted_value, key, db_version)
                  ELSE Value(<<>>)
         IN  IF d.raised THEN [raised |-> TRUE, cookies |-> result]
             ELSE IF d.value # <<>> /\ matched_domain \in DOMAIN result
             THEN DomainsLoop(rows, domains, key, db_version, i + 1,
                     [result EXCEPT ![matched_domain] = Put(@, r.name, d.value)])
             ELSE DomainsLoop(rows, domains, key, db_version, i + 1, result)

\* get_cookies_for_domains (136-192)
GetCookiesForDomains ==
    /\ pc = "cks_start"
    /\ \/ \E at \in EnvSteps :
            /\ cookieOut' = [cookieOut EXCEPT !.raised = TRUE, !.at = at,
                                              !.tmp = TmpAfter(at)]
            /\ pc' = "cks_raised"
       \/ LET out == DomainsLoop(Select(cookieDb.rows, HostsOfAll(cookieDb.domains)),
                                 cookieDb.domains, cookieDb.key,
                                 cookieDb.db_version, 1,
                                 [d \in Range(cookieDb.domains) |-> <<>>])
              at == IF out.raised THEN "decrypt" ELSE "none"
          IN  /\ cookieOut' = [raised |-> out.raised,
                               at |-> at,
                               cookies |-> out.cookies,
                               values |-> ValuesOf(cookieDb),
                               tmp |-> TmpAfter(at)]
              /\ pc' = IF out.raised THEN "cks_raised" ELSE "cks_done"
    /\ UNCHANGED <<runnerVars, helperVars, apiVars, appCheckVars, cookieDb>>

\* a cookies table of up to MaxRows rows of the domain, of any schema version
InitCookies ==
    /\ RunnerIdle
    /\ HelpersAtRest
    /\ ApiIdle
    /\ now_ms = 0
    /\ AppCheckAtRest
    /\ \E key \in {7, 200}, db_version \in {0, 23, 24, 25} :
         \E rows \in SeqsUpTo(RowsFor(key, db_version), MaxRows) \ {<<>>} :
            cookieDb = [rows |-> [i \in DOMAIN rows |->
                                     Cookie(ExampleCom, NameOf(i), rows[i])],
                        key |-> key, db_version |-> db_version,
                        domain |-> ExampleCom, domains |-> <<>>]
    /\ cookieOut = CookieOutIdle
    /\ pc = "ck_start"

NextCookies == GetCookiesForDomain

SpecCookies == InitCookies /\ [][NextCookies]_vars

\* ------------------------------------------------- the cookie jar, by host
\* the key and the schema version of the jar
JarKey == 7
JarVersion == HASH_DB_VERSION

\* what a row may hold: a plaintext value beside an encrypted one, an
\* encrypted value alone, a blob of another tag, a blob that is no whole
\* number of blocks
JarPlain == Row(<<80>>, EncryptValue(<<65>>, JarKey, JarVersion), <<65>>)
JarBroken == Row(<<>>, TagV10 \o Repeat(97, 5), NoPlain)
JarContents ==
    {JarPlain,
     Row(<<>>, EncryptValue(<<65>>, JarKey, JarVersion), <<65>>),
     Row(<<>>, <<118, 50, 48>> \o Repeat(97, 6), NoPlain),
     JarBroken}

JarNames == {"a", "b"}
\* rows of the domain and of its dotted form, and two rows of another site
JarRows ==
    {Cookie(h, n, r) : h \in HostsOf(ExampleCom), n \in JarNames, r \in JarContents}
        \cup {Cookie(Dotted(OtherOrg), "a", JarPlain),
              Cookie(Dotted(OtherOrg), "b", JarBroken)}

\* a cookies table of up to MaxTable rows of several hosts; one of the two
\* functions is called, with one domain or with a list of domains
InitCookieJar ==
    /\ RunnerIdle
    /\ HelpersAtRest
    /\ ApiIdle
    /\ now_ms = 0
    /\ AppCheckAtRest
    /\ \E rows \in SeqsUpTo(JarRows, MaxTable) :
         \/ /\ pc = "ck_start"
            /\ cookieDb = [rows |-> rows, key |-> JarKey, db_version |-> JarVersion,
                           domain |-> ExampleCom, domains |-> <<>>]
         \/ /\ pc = "cks_start"
            /\ cookieDb = [rows |-> rows, key |-> JarKey, db_version |-> JarVersion,
                           domain |-> <<>>, domains |-> <<ExampleCom, OtherOrg>>]
    /\ cookieOut = CookieOutIdle

NextCookieJar ==
    \/ GetCookiesForDomain
    \/ GetCookiesForDomains

SpecCookieJar == InitCookieJar /\ [][NextCookieJar]_vars

\* ------------------------------------------------------------ _filter_by_date
\* runner.py 210-227.  A date is a day number (date.toordinal(), counted from
\* the first day of FirstYear); isoformat() makes it a string, a sequence of
\* code points, and the filter compares strings.
FirstYear == 2022

IsLeap(y) == (y % 4 = 0 /\ y % 100 # 0) \/ y % 400 = 0
YearLen(y) == IF IsLeap(y) THEN 366 ELSE 365
MonthLen(y, m) ==
    IF m = 2 THEN (IF IsLeap(y) THEN 29 ELSE 28)
    ELSE IF m \in {4, 6, 9, 11} THEN 30 ELSE 31

RECURSIVE MonthOf(_, _, _)
MonthOf(y, m, n) ==
    IF n < MonthLen(y, m) THEN <<y, m, n + 1>> ELSE MonthOf(y, m + 1, n - MonthLen(y, m))

\* date.fromordinal: year, month and day of day number n
RECURSIVE FromOrdinal(_, _)
FromOrdinal(y, n) ==
    IF n < YearLen(y) THEN MonthOf(y, 1, n) ELSE FromOrdinal(y + 1, n - YearLen(y))

\* the decimal digits of n, zero-padded to width, as code points
RECURSIVE Digits(_, _)
Digits(n, width) ==
    IF width = 0 THEN <<>> ELSE Append(Digits(n \div 10, width - 1), 48 + (n % 10))

\* date.isoformat(): YYYY-MM-DD
Isoformat(ymd) ==
    Digits(ymd[1], 4) \o <<45>> \o Digits(ymd[2], 2) \o <<45>> \o Digits(ymd[3], 2)

IsoOf(n) == Isoformat(FromOrdinal(FirstYear, n))

\* str < str: the first differing code point decides, a proper prefix is less
RECURSIVE StrLess(_, _)
StrLess(a, b) ==
    IF b = <<>> THEN FALSE
    ELSE IF a = <<>> THEN TRUE
    ELSE IF a[1] # b[1] THEN a[1] < b[1]
    ELSE StrLess(Tail(a), Tail(b))

\* conv.date of a record without a date (None), and the day number it has
NoDate == <<-1>>
NoDay == -1

\* line 218: cutoff = (date.today() - timedelta(days=days)).isoformat()
Cutoff(today, days) == IsoOf(today - days)

\* Keeps with the record dated at the cutoff dropped
KeepsAfterCutoff(conv, cutoff) == conv.date = NoDate \/ StrLess(cutoff, conv.date)

\* lines 221-224: conv.date is None or conv.date >= cutoff
Keeps(conv, cutoff) == conv.date = NoDate \/ ~StrLess(conv.date, cutoff)

\* lines 219-227, from record i on
RECURSIVE FilterLoop(_, _, _, _)
FilterLoop(conversations, cutoff, i, result) ==
    IF i > Len(conversations) THEN result
    ELSE FilterLoop(conversations, cutoff, i + 1,
                    IF Keeps(conversations[i], cutoff)
                    THEN Append(result, conversations[i]) ELSE result)

FilterByDate ==
    /\ pc = "fd_start"
    /\ filtered' = FilterLoop(dateFilter.conversations,
                              Cutoff(dateFilter.today, dateFilter.days), 1, <<>>)
    /\ pc' = "fd_done"
    /\ UNCHANGED <<runnerVars, apiVars, appCheckVars, cookieVars, dateFilter, idbDir, idbRead,
                   waitIn, wait, session>>

\* a record: day is the day number its date was written from
Conv(title, day) ==
    [title |-> title, day |-> day, date |-> IF day = NoDay THEN NoDate ELSE IsoOf(day)]

\* day numbers of 2024-01-15, 2024-03-01 and 2024-10-01
Todays == {744, 790, 1004}
Lookbacks == {0, 1, 30, 60}

\* undated records and records dated around the cutoff and today
InitFilter ==
    /\ RunnerIdle
    /\ ApiIdle
    /\ now_ms = 0
    /\ AppCheckAtRest
    /\ CookiesAtRest
    /\ OtherHelpersAtRest
    /\ \E today \in Todays, days \in Lookbacks :
         \E ds \in SeqsUpTo({NoDay, today, today - days - 1, today - days,
                             today - days + 1}, MaxRecords) :
            dateFilter = [conversations |-> [i \in DOMAIN ds |-> Conv(i, ds[i])],
                          days |-> days, today |-> today]
    /\ filtered = <<>>
    /\ pc = "fd_start"

NextFilter == FilterByDate

SpecFilter == InitFilter /\ [][NextFilter]_vars

\* --------------------------------- _read_firebase_auth, _read_app_check_token
\* firebase_idb.py 77-183.  A record of the object store is one of: a value
\* that is no dict ("notdict"); for the auth store a record of another key
\* ("otherkey"), the record of the target key with a dict as its value
\* ("user") or with another value ("baduser"); for the App Check store a
\* record whose value is no dict ("badvalue"), one without a token
\* ("notoken") and one with a token ("token").
AuthRecords == {"notdict", "otherkey", "user", "baduser"}
AppCheckRecords == {"notdict", "badvalue", "notoken", "token"}

\* DirMissing reported as malformed content
DirMissingAsMalformed == "ValueError"

\* lines 87-88 and 147-148: the directory does not exist
DirMissing == "FileNotFoundError"

\* lines 106-133, from record i on
RECURSIVE AuthScan(_, _)
AuthScan(records, i) ==
    IF i > Len(records) THEN "ValueError"
    ELSE IF records[i] = "user" THEN "record"
    ELSE IF records[i] = "baduser" THEN "ValueError"
    ELSE AuthScan(records, i + 1)

\* lines 164-181, from record i on
RECURSIVE AppCheckScan(_, _)
AppCheckScan(records, i) ==
    IF i > Len(records) THEN "ValueError"
    ELSE IF records[i] = "token" THEN "record"
    ELSE AppCheckScan(records, i + 1)

\* the try block: lines 92-133 and 152-181
ReadStore(dir) ==
    IF ~dir.db THEN "ValueError"
    ELSE IF ~dir.store THEN "ValueError"
    ELSE IF dir.fn = "_read_firebase_auth" THEN AuthScan(dir.records, 1)
    ELSE AppCheckScan(dir.records, 1)

\* lines 87-90 and 147-150: the directory is looked for and the store opened
IdbOpen ==
    /\ pc = "idb_open"
    /\ IF ~idbDir.exists
       THEN /\ idbRead' = [idbRead EXCEPT !.result = DirMissing]
            /\ pc' = "idb_done"
       ELSE /\ idbRead' = [idbRead EXCEPT !.opened = @ + 1]
            /\ pc' = "idb_try"
    /\ UNCHANGED <<runnerVars, apiVars, appCheckVars, cookieVars, dateFilter,
                   filtered, idbDir, waitIn, wait, session>>

\* the try block returns the record or raises; the library may fail on a
\* store it cannot read
IdbTry ==
    /\ pc = "idb_try"
    /\ \E r \in {ReadStore(idbDir), "Exception"} :
         idbRead' = [idbRead EXCEPT !.pending = r]
    /\ pc' = "idb_finally"
    /\ UNCHANGED <<runnerVars, apiVars, appCheckVars, cookieVars, dateFilter,
                   filtered, idbDir, waitIn, wait, session>>

\* lines 134-135 and 182-183: finally: idb.close()
IdbFinally ==
    /\ pc = "idb_finally"
    /\ idbRead' = [idbRead EXCEPT !.closes = @ + 1, !.result = idbRead.pending]
    /\ pc' = "idb_done"
    /\ UNCHANGED <<runnerVars, apiVars, appCheckVars, cookieVars, dateFilter,
                   filtered, idbDir, waitIn, wait, session>>

\* a directory that is missing, or holds no database, no object store, or
\* an object store of up to MaxIdbRecords records
IdbDirs(fn, kinds) ==
    {[fn |-> fn, exists |-> FALSE, db |-> FALSE, store |-> FALSE, records |-> <<>>],
     [fn |-> fn, exists |-> TRUE, db |-> FALSE, store |-> FALSE, records |-> <<>>],
     [fn |-> fn, exists |-> TRUE, db |-> TRUE, store |-> FALSE, records |-> <<>>]}
        \cup {[fn |-> fn, exists |-> TRUE, db |-> TRUE, store |-> TRUE, records |-> rs] :
                 rs \in SeqsUpTo(kinds, MaxIdbRecords)}

InitIdb ==
    /\ RunnerIdle
    /\ ApiIdle
    /\ now_ms = 0
    /\ AppCheckAtRest
    /\ CookiesAtRest
    /\ dateFilter = NoFilter
    /\ filtered = <<>>
    /\ idbDir \in IdbDirs("_read_firebase_auth", AuthRecords)
                     \cup IdbDirs("_read_app_check_token", AppCheckRecords)
    /\ idbRead = IdbIdle
    /\ waitIn = NoWait
    /\ wait = WaitIdle
    /\ session = SessionIdle
    /\ pc = "idb_open"

NextIdb ==
    \/ IdbOpen
    \/ IdbTry
    \/ IdbFinally

SpecIdb == InitIdb /\ [][NextIdb]_vars

\* ---------------------------------------------------------- _wait_for_content
\* base.py 38-63.  The page answers every query of a pass with an element
\* count, or the query raises.
QueryRaises == -1
Answers == {QueryRaises, 0, 2}

\* Matched that takes every query that does not raise for a match
MatchedUnlessRaised(count) == count >= 0

\* lines 52-53: count = await page.locator(selector).count(); count > 0; a
\* query that raises is skipped (59-60)
Matched(count) == count > 0

\* line 49: for attempt in range(max_attempts)
WaitPass ==
    /\ pc = "wf_pass"
    /\ IF wait.attempt < waitIn.max_attempts
       THEN /\ wait' = [wait EXCEPT !.i = 1]
            /\ pc' = IF waitIn.selectors = <<>> THEN "wf_sleep" ELSE "wf_query"
       ELSE /\ wait' = [wait EXCEPT !.result = None]
            /\ pc' = "wf_done"
    /\ UNCHANGED <<runnerVars, apiVars, appCheckVars, cookieVars, dateFilter,
                   filtered, idbDir, idbRead, waitIn, session>>

\* lines 50-60: one selector is queried
WaitQuery ==
    /\ pc = "wf_query"
    /\ LET count == waitIn.answers[wait.attempt + 1][wait.i]
       IN  IF Matched(count)
           THEN /\ wait' = [wait EXCEPT !.queries = @ + 1,
                                        !.result = waitIn.selectors[wait.i]]
                /\ pc' = "wf_done"
           ELSE /\ wait' = [wait EXCEPT !.queries = @ + 1, !.i = @ + 1]
                /\ pc' = IF wait.i = Len(waitIn.selectors)
                         THEN "wf_sleep" ELSE "wf_query"
    /\ UNCHANGED <<runnerVars, apiVars, appCheckVars, cookieVars, dateFilter,
                   filtered, idbDir, idbRead, waitIn, session>>

\* lines 61-62: no selector matched in this pass
WaitSleep ==
    /\ pc = "wf_sleep"
    /\ wait' = [wait EXCEPT !.waits = @ + 1, !.attempt = @ + 1]
    /\ pc' = "wf_pass"
    /\ UNCHANGED <<runnerVars, apiVars, appCheckVars, cookieVars, dateFilter,
                   filtered, idbDir, idbRead, waitIn, session>>

\* the selectors of a collector, in the order of its list
SelectorNames == <<"nav a", "a[href]", "li", "div">>

\* up to MaxSelectors selectors, up to MaxAttempts passes, any answers
InitWait ==
    /\ RunnerIdle
    /\ ApiIdle
    /\ now_ms = 0
    /\ AppCheckAtRest
    /\ CookiesAtRest
    /\ dateFilter = NoFilter
    /\ filtered = <<>>
    /\ idbDir = NoIdbDir
    /\ idbRead = IdbIdle
    /\ \E n \in 0..MaxSelectors, max_attempts \in 0..MaxAttempts :
         \E answers \in [1..max_attempts -> [1..n -> Answers]] :
            waitIn = [selectors |-> SubSeq(SelectorNames, 1, n),
                      max_attempts |-> max_attempts, answers |-> answers]
    /\ wait = WaitIdle
    /\ session = SessionIdle
    /\ pc = "wf_pass"

NextWait ==
    \/ WaitPass
    \/ WaitQuery
    \/ WaitSleep

SpecWait == InitWait /\ [][NextWait]_vars

\* ------------------------------------------- run_collector: the page session
\* runner.py 293-343 step by step, with _save_debug_info (187-207).  Every
\* awaited call either returns or raises.
SessionUnchanged ==
    UNCHANGED <<runnerVars, apiVars, appCheckVars, cookieVars, dateFilter,
                filtered, idbDir, idbRead, waitIn, wait>>

\* an exception raised inside the try of 296-332 is caught at 334
Fails(at) ==
    /\ session' = [session EXCEPT !.failedAt = at]
    /\ pc' = "co_except"

\* _save_debug_info(page, platform) is called; ret is where it returns to
Capture(cause, ret, s) ==
    /\ session' = [s EXCEPT !.ret = ret,
                            !.captures = Append(@, [cause |-> cause,
                                                    shot |-> "none",
                                                    dump |-> "none"])]
    /\ pc' = "dbg_shot"

\* line 295: async with async_playwright() as pw, outside the try
CoStart ==
    /\ pc = "co_start"
    /\ \E ok \in BOOLEAN : pc' = IF ok THEN "co_connect" ELSE "co_raised"
    /\ UNCHANGED session
    /\ SessionUnchanged

\* lines 297-301: connect_over_cdp, contexts[0], new_page
CoConnect ==
    /\ pc = "co_connect"
    /\ \/ /\ session' = [session EXCEPT !.page = TRUE]
          /\ pc' = "co_goto"
       \/ Fails("connect")
    /\ SessionUnchanged

\* lines 303-307: page.goto
CoGoto ==
    /\ pc = "co_goto"
    /\ \/ /\ pc' = "co_login"
          /\ UNCHANGED session
       \/ Fails("goto")
    /\ SessionUnchanged

\* lines 309-316: check_login; not logged in: capture, close, return []
CoLogin ==
    /\ pc = "co_login"
    /\ \/ /\ session' = [session EXCEPT !.logged_in = "yes"]
          /\ pc' = "co_list"
       \/ Capture("login", "co_login_close",
                  [session EXCEPT !.logged_in = "no"])
       \/ Fails("login")
    /\ SessionUnchanged

\* lines 318-322: get_conversation_list; an empty list: capture
CoList ==
    /\ pc = "co_list"
    /\ \/ \E n \in 0..MaxConvs :
             IF n = 0
             THEN Capture("empty", "co_close", [session EXCEPT !.raw = n])
             ELSE /\ session' = [session EXCEPT !.raw = n]
                  /\ pc' = "co_filter"
       \/ Fails("list")
    /\ SessionUnchanged

\* lines 324-326: normalize_conversation and _filter_by_date
CoFilter ==
    /\ pc = "co_filter"
    /\ \/ \E k \in 0..session.raw :
             /\ session' = [session EXCEPT !.kept = k, !.conversations = k]
             /\ pc' = "co_close"
       \/ Fails("normalize")
    /\ SessionUnchanged

\* line 315 and line 332: page.close() inside the try; line 316 returns []
\* and line 343 returns conversations
CoClose ==
    /\ pc \in {"co_close", "co_login_close"}
    /\ \/ /\ session' = [session EXCEPT
                !.closes = @ + 1,
                !.conversations = IF pc = "co_login_close" THEN 0 ELSE @]
          /\ pc' = "co_return"
       \/ Fails("close")
    /\ SessionUnchanged

\* lines 334-338: except Exception; if page: _save_debug_info
CoExcept ==
    /\ pc = "co_except"
    /\ IF session.page
       THEN Capture("exception", "co_except_close",
                    [session EXCEPT !.handled = TRUE])
       ELSE /\ session' = [session EXCEPT !.handled = TRUE]
            /\ pc' = "co_return"
    /\ SessionUnchanged

\* lines 339-341: page.close() in the handler; except Exception: pass
CoExceptClose ==
    /\ pc = "co_except_close"
    /\ \E ok \in BOOLEAN :
          session' = [session EXCEPT !.closes = IF ok THEN @ + 1 ELSE @]
    /\ pc' = "co_return"
    /\ SessionUnchanged

\* line 343 (and 316): return
CoReturn ==
    /\ pc = "co_return"
    /\ session' = [session EXCEPT !.out = session.conversations]
    /\ pc' = "co_done"
    /\ SessionUnchanged

\* where an exception that leaves _save_debug_info would go: swallowed by
\* 340-341 in the handler, caught at 334 elsewhere
OnShotErrorRaises(ret) ==
    IF ret = "co_except_close" THEN "co_return" ELSE "co_except"

\* lines 195-196: except Exception logs the failed screenshot and the
\* function goes on to the HTML block
OnShotError(ret) == "dbg_dump"

SetLast(captures, field, v) ==
    [captures EXCEPT ![Len(captures)] = [@ EXCEPT ![field] = v]]

\* lines 190-196: mkdir and page.screenshot, or their exception logged
DbgShot ==
    /\ pc = "dbg_shot"
    /\ \/ /\ session' = [session EXCEPT !.captures = SetLast(@, "shot", "saved")]
          /\ pc' = "dbg_dump"
       \/ /\ session' = [session EXCEPT !.captures = SetLast(@, "shot", "failed")]
          /\ pc' = OnShotError(session.ret)
    /\ SessionUnchanged

\* lines 198-205: mkdir, page.content and write_text, or their exception
\* logged; the function returns
DbgDump ==
    /\ pc = "dbg_dump"
    /\ \E r \in {"saved", "failed"} :
          session' = [session EXCEPT !.captures = SetLast(@, "dump", r)]
    /\ pc' = session.ret
    /\ SessionUnchanged

InitSession ==
    /\ RunnerIdle
    /\ ApiIdle
    /\ now_ms = 0
    /\ AppCheckAtRest
    /\ CookiesAtRest
    /\ dateFilter = NoFilter
    /\ filtered = <<>>
    /\ idbDir = NoIdbDir
    /\ idbRead = IdbIdle
    /\ waitIn = NoWait
    /\ wait = WaitIdle
    /\ session = SessionIdle
    /\ pc = "co_start"

NextSession ==
    \/ CoStart
    \/ CoConnect
    \/ CoGoto
    \/ CoLogin
    \/ CoList
    \/ CoFilter
    \/ CoClose
    \/ CoExcept
    \/ CoExceptClose
    \/ CoReturn
    \/ DbgShot
    \/ DbgDump

SpecSession == InitSession /\ [][NextSession]_vars

\* ------------------------------------------------------------------ properties
KnownOverride == profile_override = None \/ FindProfile(profile_override, 1) # NoProfile

\* the thread is inside run_collector or persisting its result
Collecting == pc \in {"rc_decide", "launch_start", "launch_poll", "rc_connect", "persist"}

RECURSIVE PlatformsBefore(_)
PlatformsBefore(g) ==
    IF g <= 1 THEN 0 ELSE PlatformsBefore(g - 1) + Len(groups[g - 1].platforms)

\* C1: every page is opened in a browser launched with the user-data
\* directory of the platform's own profile group, and when run_collector is
\* about to connect, the debug port answers only for a live browser of that
\* directory: a browser of another profile is dead and its port released.
C1_OwnProfileBrowserOnly ==
    /\ visit # NoVisit => visit.browser = visit.wanted
    /\ pc = "rc_connect" /\ IsCdpAvailable(port) =>
          Alive(port) /\ ProcOf(port).dir = cdp_data_dir

ClosesBefore(g) == Cardinality({i \in DOMAIN closeLog : closeLog[i].g = g})

\* C3: when run_all is done, _close_chrome was called exactly once before
\* every group whose profile differs from the previous group's (the
\* no-profile group included), never before the first group, never before a
\* group of the same profile and never between the platforms of a group.
C3_OneCloseBetweenDifferingGroups ==
    pc = "done" =>
        /\ \A i \in DOMAIN closeLog : closeLog[i].p = 0
        /\ \A g \in DOMAIN groups :
             ClosesBefore(g) =
                 IF g > 1 /\ ProfileKey(groups[g].profile) # ProfileKey(groups[g - 1].profile)
                 THEN 1 ELSE 0

Owner(p) == get_profile_for_platform(p, DEFAULT_PROFILES)

\* platforms [p1, p2, p3], p1 and p3 of one profile A and p2 of another, B
IsABA ==
    /\ profile_override = None
    /\ Len(platforms) = 3
    /\ Owner(platforms[1]) # NoProfile
    /\ Owner(platforms[2]) # NoProfile
    /\ Owner(platforms[1]) = Owner(platforms[3])
    /\ Owner(platforms[1]) # Owner(platforms[2])

\* C4, as the specification states it: for [p1, p2, p3] of profiles A, B, A the groups are
\* [(A,[p1]), (B,[p2]), (A,[p3])] and run_all makes two terminations.
C4_RunsOfConsecutive ==
    IsABA /\ pc # "start" =>
        /\ groups = << [profile |-> Owner(platforms[1]), platforms |-> <<platforms[1]>>],
                       [profile |-> Owner(platforms[2]), platforms |-> <<platforms[2]>>],
                       [profile |-> Owner(platforms[3]), platforms |-> <<platforms[3]>>] >>
        /\ pc = "done" => Len(closeLog) = 2

\* C4, amended: for [p1, p2, p3] of profiles A, B, A the groups are
\* [(A,[p1,p3]), (B,[p2])], one group per profile in the order of first
\* encounter, and run_all makes one termination, before the group of B.
C4_OneGroupPerProfile ==
    IsABA /\ pc # "start" =>
        /\ groups = << [profile |-> Owner(platforms[1]),
                        platforms |-> <<platforms[1], platforms[3]>>],
                       [profile |-> Owner(platforms[2]), platforms |-> <<platforms[2]>>] >>
        /\ pc = "done" => closeLog = <<[g |-> 2, p |-> 0]>>

C4_Witness == IsABA /\ pc = "done" /\ Len(closeLog) = 1

KeyOf(p) == ProfileKey(Owner(p))

\* the keys of a list of platforms, each once, in the order of first encounter
RECURSIVE FirstSeen(_)
FirstSeen(ps) ==
    IF ps = <<>> THEN <<>>
    ELSE LET front == FirstSeen(SubSeq(ps, 1, Len(ps) - 1))
             k == KeyOf(ps[Len(ps)])
         IN  IF k \in Range(front) THEN front ELSE Append(front, k)

\* the platforms of a list that have key k, in the list's order
RECURSIVE OfKey(_, _)
OfKey(ps, k) ==
    IF ps = <<>> THEN <<>>
    ELSE LET front == OfKey(SubSeq(ps, 1, Len(ps) - 1), k)
         IN  IF KeyOf(ps[Len(ps)]) = k THEN Append(front, ps[Len(ps)]) ELSE front

RECURSIVE TotalLen(_, _)
TotalLen(gs, n) == IF n = 0 THEN 0 ELSE TotalLen(gs, n - 1) + Len(gs[n].platforms)

\* C5: group_platforms_by_profile returns the groups in the order in which
\* their profile is first encountered, each with the profile that owns its
\* platforms (None when no profile does) and with exactly the input's
\* platforms of that profile in the input's order; every occurrence is in
\* one group; the empty list yields no groups.
C5_GroupingPreservesOrder ==
    pc = "done" =>
        /\ Len(groups) = Len(FirstSeen(platforms))
        /\ \A i \in DOMAIN groups :
             /\ ProfileKey(groups[i].profile) = FirstSeen(platforms)[i]
             /\ groups[i].platforms = OfKey(platforms, FirstSeen(platforms)[i])
             /\ \A j \in DOMAIN groups[i].platforms :
                  Owner(groups[i].platforms[j]) = groups[i].profile
        /\ TotalLen(groups, Len(groups)) = Len(platforms)
        /\ platforms = <<>> => groups = <<>>

\* interleaved profiles, a platform without profile and a repeated platform
C5_Witness ==
    /\ pc = "done"
    /\ Len(groups) = 2
    /\ Len(groups[1].platforms) = 2
    /\ groups[1].platforms[1] # groups[1].platforms[2]
    /\ groups[2].profile = NoProfile
    /\ platforms[2] = groups[2].platforms[1]

LaunchFailed(r) == r \in {"timeout", "notfound"}

\* C7, as the specification states it: after a fatal launch error for a profile no further launch
\* is attempted for that profile in the run, and the profile's remaining
\* platforms have a zero count.
C7_NoLaunchAfterFailure ==
    /\ pc = "launch_start" => CurrentKey \notin failedKeys
    /\ pc = "persist" /\ CurrentKey \in failedKeys => convs = 0

\* C7, amended: a platform whose launch failed gets a zero count and no page
\* is opened for it, but the failure is not remembered: every platform of
\* the list still goes through run_collector, which returns without a
\* launch and without a page only for an unknown platform, beside a running
\* Chrome, or when the port answers for a browser that is gone.
C7_FailureIsPerPlatform ==
    /\ pc = "platform" /\ LaunchFailed(iter.launch) =>
          results[iter.platform] = 0 /\ visit = NoVisit
    /\ pc = "persist" /\ launch.result = "none" /\ visit = NoVisit =>
          \/ Platform \notin Range(COLLECTORS)
          \/ IsChromeRunning(procs)
          \/ IsCdpAvailable(port)
    /\ pc = "done" /\ KnownOverride => nIters = Len(Target)

\* a launch is attempted for a profile whose launch failed earlier in the run
C7_Witness == pc = "launch_start" /\ CurrentKey \in failedKeys

\* C8: the readiness loop makes at most 15 polls, one second apart; the
\* handle is returned only when a poll found the port answering, and then
\* the process was not killed; when no poll answered the process was killed
\* exactly once, after 15 polls, and TimeoutError raised.
C8_LaunchPolling ==
    /\ launch.polls <= LAUNCH_POLLS
    /\ launch.slept = launch.polls
    /\ launch.result = "polling" =>
          launch.kills = 0 /\ Alive(launch.proc) /\ ~IsCdpAvailable(port)
    /\ launch.result = "returned" =>
          launch.kills = 0 /\ Alive(launch.proc) /\ IsCdpAvailable(port)
    /\ launch.result = "timeout" =>
          /\ launch.polls = LAUNCH_POLLS
          /\ launch.kills = 1
          /\ ~Alive(launch.proc)
          /\ ~IsCdpAvailable(port)
          /\ pc \in {"persist", "platform"}
          /\ pc = "persist" => convs = 0

\* the fifteenth poll did not answer and the process was killed
C8_Witness == launch.result = "timeout" /\ launch.kills = 1 /\ pc = "persist"

\* C9: whenever _close_chrome was given a port and has returned (the calls
\* ended by its except clause left aside), the port no longer answers.
C9_ReturnsOnlyWhenPortFree ==
    close.state = "returned" /\ close.cdp_port # <<>> /\ ~close.caught =>
        ~IsCdpAvailable(port)

\* C10: _close_chrome never raises; nothing is signalled when pgrep finds no
\* Chrome; the grace polls (at most 10) start only when SIGTERM was sent to
\* every running Chrome pid; SIGKILL is sent only to pids that got SIGTERM,
\* only after 10 polls that all found Chrome running, and never when a poll
\* found it gone.
C10_TermGraceKill ==
    /\ close.state # "raised" /\ pc # "raised"
    /\ ~close.found => close.term = {} /\ close.kill = {}
    /\ close.polls <= GRACE_POLLS
    /\ pc = "close_grace" => close.term # {} /\ close.term = Pids(procs)
    /\ close.kill # {} =>
          /\ close.polls = GRACE_POLLS
          /\ ~close.exited
          /\ close.kill \subseteq close.term
    /\ close.exited => close.kill = {}

\* two Chromes got SIGTERM, outlived the grace period and got SIGKILL
C10_Witness ==
    /\ close.state = "returned"
    /\ Cardinality(close.term) = 2
    /\ close.kill = close.term

\* C11: a directory's state changes only in two ways: _prepare_cdp_profile
\* copies into the directory run_collector is about to launch on, and only
\* when it had no Default subdirectory; or the launched Chrome takes it as
\* its own.  So a directory is seeded at most once, and a launch on a
\* directory that keeps Chrome's own session copies nothing over it.
C11_SeededOnceBeforeLaunch ==
    [][\A d \in CdpDirs :
         /\ fs'[d] # fs[d] =>
               \/ /\ fs[d] = "absent" /\ fs'[d] = "seeded"
                  /\ d = cdp_data_dir
                  /\ pc = "rc_seed" /\ pc' = "launch_start"
               \/ /\ fs[d] = "seeded" /\ fs'[d] = "own"
                  /\ d = cdp_data_dir
                  /\ pc = "launch_start" /\ pc' = "launch_poll"
         /\ fs[d] = "own" => fs'[d] = "own"
         /\ pc = "rc_seed" => fs[cdp_data_dir] = "absent"]_vars

\* a browser was launched, without seeding, on a directory that held Chrome's
\* own session, after a first launch in the same run had seeded it
C11_Witness ==
    /\ pc = "launch_poll"
    /\ ~launch.seeded
    /\ fs[cdp_data_dir] = "own"
    /\ CurrentKey \in failedKeys
    /\ \E d \in CdpDirs : fs[d] = "absent"

\* C12: get_firebase_token (called by collect_fyxer) returns the stored
\* access token, with no call of the refresh endpoint, exactly when the
\* record's expirationTime is more than 5 minutes after now (the boundary
\* itself is not valid); otherwise it calls the refresh endpoint exactly once
\* and returns the new id token, or raises that call's error without a retry.
C12_FirebaseTokenValidity ==
    collector = "fyxer" =>
        /\ auth.refreshCalls <= 1
        /\ auth.token = "stored" =>
              /\ expires_ms > now_ms + 5 * 60 * 1000
              /\ auth.refreshCalls = 0
        /\ auth.token = "fresh" =>
              /\ expires_ms <= now_ms + 5 * 60 * 1000
              /\ auth.refreshCalls = 1
        /\ returned.at = "credential"
             /\ returned.error \in {"HTTPStatusError", "RequestError"} =>
              /\ expires_ms <= now_ms + 5 * 60 * 1000
              /\ auth.refreshCalls = 1
              /\ auth.token = "none"
        /\ auth.refreshCalls = 1 => expires_ms <= now_ms + 5 * 60 * 1000

\* exactly at the boundary the token was refreshed
C12_Witness ==
    /\ collector = "fyxer"
    /\ expires_ms = now_ms + 5 * 60 * 1000
    /\ auth.token = "fresh"
    /\ auth.refreshCalls = 1
    /\ pc = "api_setup"

\* C13: a token with which an adapter calls the provider was refreshed, or
\* expired more than 300 s after the time of its validity check, for the
\* identity-broker token of collect_fyxer and for the token file of
\* collect_granola.
C13_UsedTokenOutsideBuffer ==
    collector \in {"fyxer", "granola"} /\ page.requests > 0 =>
        \/ auth.token = "fresh"
        \/ expires_ms > now_ms + 300 * 1000

\* C14: the browser bootstrap is run only when none of the three stores
\* holds a token that expires after now, and a token that is returned has
\* not expired.
C14_BootstrapOnlyWithoutToken ==
    /\ pc = "ac_refresh" =>
          \A s \in StoreNames :
              ~(stores[s].dir /\ stores[s].token /\ stores[s].expire > now_ms)
    /\ appCheck.result = "token" =>
          ~(stores[appCheck.from].expire > 0
              /\ stores[appCheck.from].expire < now_ms)

\* C15: get_app_check_token never raises: whatever fails, it returns None.
C15_AppCheckNeverRaises == pc # "ac_raised" /\ appCheck.result # "raised"

\* C16: a collect function never raises: when its credential or a set-up
\* call fails it returns the empty list.
C16_AdaptersNeverRaise ==
    returned.at \in {"credential", "setup"} =>
        returned.kind = "empty" /\ pc # "api_raised"

\* C17: collect_chatgpt and collect_fyxer issue at most 50 list requests and
\* collect_granola at most 100, whatever the endpoint answers; when the loop
\* runs out of pages the warning is logged and the list gathered is returned.
C17_PaginationBounded ==
    collector \in Paginating =>
        /\ page.requests <= (IF collector = "granola" THEN 100 ELSE 50)
        /\ page.warned =>
              /\ returned.kind = "list"
              /\ page.requests = (IF collector = "granola" THEN 100 ELSE 50)
        /\ returned.at = "limit" => page.warned
        /\ pc = "api_done" /\ page.requests > 0 => returned.kind = "list"

\* the endpoint answered every request of collect_granola with a full page
C17_Witness ==
    /\ collector = "granola"
    /\ page.warned
    /\ page.requests = 100
    /\ page.items = GRANOLA_PAGE_SIZE
    /\ pc = "api_done"

\* C18, as the specification states it: in every paginating adapter another
\* list request follows a page only if the page was full, and a full page
\* below the page bound is always followed by another request.
C18_StopsOnShortPageOnly ==
    collector \in Paginating =>
        /\ pc = "api_page" /\ page.requests > 0 =>
              page.items = PageSizeOf(collector)
        /\ returned.kind = "list" /\ returned.error = None
             /\ page.requests < MaxPagesOf(collector) =>
              page.items # PageSizeOf(collector)

\* whether, by the adapter's own rule, another request follows a page
ContinuesAfter(c, items, more) ==
    CASE c = "granola" -> items = GRANOLA_PAGE_SIZE
      [] c = "chatgpt" -> items = CHATGPT_PAGE_SIZE /\ more
      [] c = "fyxer" -> items > 0 /\ more

\* C18: the loop goes on after a page exactly when collect_granola got a
\* full page, collect_chatgpt got a full page and offset < total, and
\* collect_fyxer got a page that is not empty and has a next page token; a
\* failed request ends it, and the page bound ends it with the warning.
C18_StopsByAdapterRule ==
    collector \in Paginating =>
        /\ pc = "api_page" /\ page.requests > 0 =>
              ContinuesAfter(collector, page.items, page.more)
        /\ returned.at = "list" /\ returned.error = None =>
              ~ContinuesAfter(collector, page.items, page.more)
        /\ returned.at = "list" /\ returned.error # None => page.items = -1
        /\ returned.at = "limit" =>
              /\ page.requests = MaxPagesOf(collector)
              /\ ContinuesAfter(collector, page.items, page.more)

\* collect_fyxer asks for another page after a page of one record that came
\* with a next page token
C18_Witness ==
    /\ collector = "fyxer"
    /\ pc = "api_page"
    /\ page.requests = 2
    /\ page.items = 1
    /\ page.more

\* C19: _decrypt_value returns x for the v10 encryption of every value x,
\* the empty one included, under every schema version.
C19_DecryptRoundTrip ==
    pc = "ck_done" =>
        \A i \in DOMAIN cookieDb.rows :
            cookieDb.rows[i].plain # NoPlain =>
                /\ ~cookieOut.values[i].raised
                /\ cookieOut.values[i].value = cookieDb.rows[i].plain

\* C20: _decrypt_value gives the empty string, and no exception, for every
\* blob that is no v10 encryption, and get_cookies_for_domain still returns
\* every other matching cookie.
C20_BadCookieDoesNotAbort ==
    cookieOut.at \notin EnvSteps /\ pc \in {"ck_done", "ck_raised"} =>
        /\ cookieOut.at # "decrypt"
        /\ \A i \in DOMAIN cookieDb.rows :
              LET r == cookieDb.rows[i]
              IN  /\ r.encrypted_value \in BadBlobs =>
                        cookieOut.values[i] = Value(<<>>)
                  /\ r.value # <<>> =>
                        NameOf(i) \in DOMAIN cookieOut.cookies
                  /\ r.plain # NoPlain /\ r.plain # <<>> =>
                        NameOf(i) \in DOMAIN cookieOut.cookies

\* the call of get_cookies_for_domain(s) has ended
CookiesEnded == pc \in {"ck_done", "ck_raised", "cks_done", "cks_raised"}

\* C21: after get_cookies_for_domain or get_cookies_for_domains returns or
\* raises, the private temp copy of the cookie database does not exist,
\* whichever step failed, and the rows of the live database are never changed.
C21_TempCopyRemoved ==
    /\ [](CookiesEnded => cookieOut.tmp # "exists")
    /\ [][cookieDb.rows' = cookieDb.rows]_vars

\* get_cookies_for_domains raised from _decrypt_value, after the temp copy
\* was made, and the copy is gone
C21_Witness ==
    /\ pc = "cks_raised"
    /\ cookieOut.at = "decrypt"
    /\ cookieOut.tmp = "removed"

\* the rows of the table whose host_key is the domain or its dotted form
Matching == {i \in DOMAIN cookieDb.rows :
                cookieDb.rows[i].host_key \in {cookieDb.domain, Dotted(cookieDb.domain)}}

\* what row i resolves to: its plaintext value when it has one, else the
\* decryption of its encrypted_value
Resolved(i) ==
    IF cookieDb.rows[i].value # <<>> THEN cookieDb.rows[i].value
    ELSE cookieOut.values[i].value

\* C22: what get_cookies_for_domain(domain) returns has a name exactly for
\* the names of the rows of host domain or '.'+domain that resolve to a
\* non-empty value, and gives each name the value one of these rows of that
\* name resolves to; rows of other hosts and rows resolving to empty add
\* nothing.
C22_ExactlyTheDomainsCookies ==
    pc = "ck_done" =>
        LET Kept == {i \in Matching : Resolved(i) # <<>>}
        IN  /\ DOMAIN cookieOut.cookies = {cookieDb.rows[i].name : i \in Kept}
            /\ \A n \in DOMAIN cookieOut.cookies :
                  cookieOut.cookies[n] \in
                      {Resolved(i) : i \in {k \in Kept : cookieDb.rows[k].name = n}}

\* a plaintext cookie of '.'+domain and an encrypted one of domain are
\* returned in one map, beside nothing else
C22_Witness ==
    /\ pc = "ck_done"
    /\ Len(cookieDb.rows) = 2
    /\ cookieDb.rows[1].host_key = Dotted(ExampleCom)
    /\ cookieDb.rows[1].value # <<>>
    /\ cookieDb.rows[2].host_key = ExampleCom
    /\ cookieDb.rows[2].value = <<>>
    /\ cookieDb.rows[1].name # cookieDb.rows[2].name
    /\ DOMAIN cookieOut.cookies = {"a", "b"}

\* the records of the input that have no date or are dated on or after the
\* day days before today, in the order of the input
RECURSIVE InWindow(_, _, _)
InWindow(conversations, firstDay, i) ==
    IF i > Len(conversations) THEN <<>>
    ELSE (IF conversations[i].day = NoDay \/ conversations[i].day >= firstDay
          THEN <<conversations[i]>> ELSE <<>>)
             \o InWindow(conversations, firstDay, i + 1)

\* C23: _filter_by_date(records, N) returns, in input order and unaltered,
\* exactly the records without a date and those dated on or after the cutoff
\* today - N days; a record dated at the cutoff is kept, an earlier one dropped.
C23_FilterByDate ==
    pc = "fd_done" =>
        filtered = InWindow(dateFilter.conversations,
                            dateFilter.today - dateFilter.days, 1)

\* an undated record, one dated at the cutoff and one of the day before,
\* the cutoff in the year before today: the first two are returned
C23_Witness ==
    /\ pc = "fd_done"
    /\ dateFilter.today = 744
    /\ dateFilter.days = 30
    /\ Len(dateFilter.conversations) = 3
    /\ dateFilter.conversations[1].day = 713
    /\ dateFilter.conversations[2].day = 714
    /\ dateFilter.conversations[3].day = NoDay
    /\ Len(filtered) = 2
    /\ filtered[1].date = <<50, 48, 50, 51, 45, 49, 50, 45, 49, 54>>

\* C24: run_all with a profile_override that names no configured profile
\* ends at once with an empty result map: no collector is run, no browser is
\* spawned and _close_chrome is not called.  With an override that names a
\* profile the requested platforms are one group under that profile, and
\* _close_chrome is never called.
C24_ProfileOverride ==
    profile_override # None /\ pc # "start" =>
        IF KnownOverride
        THEN /\ groups = <<[profile |-> FindProfile(profile_override, 1),
                            platforms |-> Target]>>
             /\ closeLog = <<>>
             /\ close = CloseIdle
        ELSE /\ pc = "done"
             /\ results = [p \in {} |-> 0]
             /\ nIters = 0
             /\ visit = NoVisit
             /\ launch = LaunchIdle
             /\ nextPid = 2
             /\ closeLog = <<>>
             /\ close = CloseIdle

\* run_all is done with platforms of two profiles, all run under the
\* profile of the override in one group
C24_Witness ==
    /\ pc = "done"
    /\ profile_override = "personal"
    /\ platforms = <<"claude", "gemini", "chatgpt">>
    /\ nIters = 3
    /\ Len(groups) = 1

\* run_all returned at once for an override that names no profile
UnknownOverrideReturned ==
    /\ pc = "done"
    /\ profile_override = "nonexistent"
    /\ platforms = <<"claude", "gemini">>

\* the profiles of the default configuration that list the platform
ProfilesOf(platform) ==
    {i \in DOMAIN DEFAULT_PROFILES : platform \in Range(DEFAULT_PROFILES[i].platforms)}

\* C25: in the default configuration no platform belongs to more than one
\* profile, claude and chatgpt map to personal, gemini and fyxer to company,
\* and granola maps to no profile: get_profile_for_platform("granola") is
\* None, so the grouping puts granola under no profile.
C25_DefaultProfiles ==
    /\ \A p \in AllNames : Cardinality(ProfilesOf(p)) <= 1
    /\ \A p \in {"claude", "chatgpt"} : Owner(p).name = "personal"
    /\ \A p \in {"gemini", "fyxer"} : Owner(p).name = "company"
    /\ Owner("granola") = NoProfile
    /\ pc = "done" =>
          \A g \in DOMAIN groups :
              "granola" \in Range(groups[g].platforms) => groups[g].profile = NoProfile

\* C26: a list request that fails with an HTTP status error or a request
\* error is not made again: no request follows it in that run, and the
\* adapter returns the list gathered so far, the records of the pages before
\* that are dated within the window (the empty list when the first request
\* failed).
C26_NoRetryAfterFailedPage ==
    /\ [](returned.at = "list" /\ returned.error \in PageCaught =>
            /\ pc = "api_done"
            /\ page.items = -1
            /\ returned.kind \in {"list", "empty"}
            /\ returned.n = page.kept
            /\ page.requests = 1 => returned.n = 0)
    /\ [][page.items = -1 => page'.requests = page.requests]_vars

\* the third list request failed with a request error; the full page and
\* the page with a record before the cutoff gathered before it are returned
C26_Witness ==
    /\ pc = "api_done"
    /\ collector \in Paginating
    /\ page.requests = 3
    /\ page.items = -1
    /\ returned.error = "RequestError"
    /\ page.oldPages = 1
    /\ returned.n = page.fetched - 1
    /\ returned.n > 1

HasRecord(dir) ==
    /\ dir.db /\ dir.store
    /\ IF dir.fn = "_read_firebase_auth"
       THEN \E i \in DOMAIN dir.records :
               /\ dir.records[i] = "user"
               /\ \A j \in 1..(i - 1) : dir.records[j] # "baduser"
       ELSE "token" \in Range(dir.records)

\* C28: _read_firebase_auth and _read_app_check_token close the store they
\* opened exactly once however they end (record found, database missing,
\* object store missing, key not found, wrong value type), never close a
\* store they did not open, and report a missing directory with
\* FileNotFoundError and malformed content with ValueError.
C28_StoreClosedOnce ==
    /\ idbRead.closes <= idbRead.opened
    /\ idbRead.opened <= 1
    /\ pc = "idb_done" =>
          /\ idbRead.closes = idbRead.opened
          /\ idbRead.opened = (IF idbDir.exists THEN 1 ELSE 0)
          /\ idbRead.result = "FileNotFoundError" <=> ~idbDir.exists
          /\ idbRead.result = "record" => HasRecord(idbDir)
          /\ idbDir.exists /\ ~HasRecord(idbDir) =>
                idbRead.result \in {"ValueError", "Exception"}
          /\ idbRead.result = "ValueError" => idbDir.exists /\ ~HasRecord(idbDir)

\* _read_firebase_auth found the record of the target key with a value of
\* the wrong type, raised ValueError and closed the store once
C28_Witness ==
    /\ pc = "idb_done"
    /\ idbDir.fn = "_read_firebase_auth"
    /\ idbDir.records = <<"otherkey", "baduser">>
    /\ idbRead.result = "ValueError"
    /\ idbRead.opened = 1
    /\ idbRead.closes = 1

\* the selectors whose query in pass p finds elements
MatchingIn(p) ==
    {j \in DOMAIN waitIn.selectors : waitIn.answers[p][j] > 0}

\* the passes in which some selector's query finds elements
PassesWithMatch == {p \in 1..waitIn.max_attempts : MatchingIn(p) # {}}

Least(S) == CHOOSE x \in S : \A y \in S : x <= y

\* C29: _wait_for_content makes at most max_attempts passes over the
\* selectors.  It returns the first selector, in the order of the list, whose
\* count is above 0 in the earliest pass in which any selector matches,
\* having waited one poll interval after each pass before; a query that
\* raises counts as no match; it returns None exactly when no selector
\* matches in any pass, having waited after every pass.
C29_WaitForContent ==
    /\ wait.attempt <= waitIn.max_attempts
    /\ wait.queries <= waitIn.max_attempts * Len(waitIn.selectors)
    /\ pc = "wf_done" =>
          IF PassesWithMatch = {}
          THEN /\ wait.result = None
               /\ wait.waits = waitIn.max_attempts
               /\ wait.queries = waitIn.max_attempts * Len(waitIn.selectors)
          ELSE LET p == Least(PassesWithMatch)
                   j == Least(MatchingIn(p))
               IN  /\ wait.result = waitIn.selectors[j]
                   /\ wait.waits = p - 1
                   /\ wait.queries = ((p - 1) * Len(waitIn.selectors)) + j

\* the first selector's query raised in both passes and the second one
\* matched in the second pass only: the second selector is returned after
\* one wait
C29_Witness ==
    /\ pc = "wf_done"
    /\ waitIn.max_attempts = 2
    /\ Len(waitIn.selectors) = 2
    /\ waitIn.answers = << <<QueryRaises, 0>>, <<QueryRaises, 2>> >>
    /\ wait.result = waitIn.selectors[2]
    /\ wait.waits = 1

\* the causes of the calls of _save_debug_info so far
Causes == {session.captures[i].cause : i \in DOMAIN session.captures}

\* a call of _save_debug_info that has returned tried both the screenshot
\* and the page dump
Completed(c) == c.shot # "none" /\ c.dump # "none"

\* some screenshot or page dump failed
CaptureFailed ==
    \E i \in DOMAIN session.captures :
        session.captures[i].shot = "failed" \/ session.captures[i].dump = "failed"

\* C30: the diagnostic capture is attempted when the login check fails, when
\* the scrape is empty and when the scrape raises with a page open; a failing
\* screenshot or page dump is swallowed: it does not stop the rest of the
\* capture, never reaches run_collector's exception handler, never leaves
\* run_collector, and the list returned is the filtered one, or [] when
\* none was produced.
C30_CaptureFailureSwallowed ==
    /\ pc = "co_raised" => session.captures = <<>>
    /\ session.handled => session.failedAt # "none"
    /\ \A i \in DOMAIN session.captures :
          session.captures[i].shot = "failed" /\ session.captures[i].dump = "none"
             => pc = "dbg_dump"
    /\ pc = "co_done" =>
          /\ session.out = (IF session.kept # -1 THEN session.kept ELSE 0)
          /\ \A i \in DOMAIN session.captures : Completed(session.captures[i])
          /\ session.logged_in = "no" => "login" \in Causes
          /\ session.raw = 0 => "empty" \in Causes
          /\ (session.failedAt # "none" /\ session.page) => "exception" \in Causes
          /\ (session.failedAt = "none" /\ session.logged_in = "yes"
                /\ session.raw > 0) => session.captures = <<>>

\* the scrape was empty, the screenshot and the page dump both failed, and
\* run_collector closed the page and returned [] without entering its
\* exception handler
C30_Witness ==
    /\ pc = "co_done"
    /\ session.raw = 0
    /\ Len(session.captures) = 1
    /\ session.captures[1] = [cause |-> "empty", shot |-> "failed", dump |-> "failed"]
    /\ ~session.handled
    /\ session.closes = 1
    /\ session.out = 0

\* page.close() of line 332 raised after the filtered list was made, and a
\* capture in the exception handler failed: the filtered list is returned
CaptureFailedInHandler ==
    /\ pc = "co_done"
    /\ session.failedAt = "close"
    /\ session.kept > 0
    /\ CaptureFailed
    /\ session.out = session.kept

====
